---------------------------- MODULE Spec2Model ----------------------------
(***************************************************************************)
(* State-machine model of the cf-rag-agent document pipeline and retrieval *)
(* path: the upload endpoint, the five-step DocumentProcessingWorkflow,    *)
(* the storage service (D1 row store + Vectorize index), the RAG tools     *)
(* (search_documents, delete_document) and the agent's session handling.   *)
(*                                                                         *)
(* Stores.  env.DB (D1) holds the tables documents and document_chunks     *)
(* (schema.sql).  env.VECTOR_INDEX is the Vectorize index.  env.           *)
(* DOCUMENTS_BUCKET is R2.  The agent's this.sql is the Durable Object's   *)
(* own embedded SQLite: the tables RAGAgent.initializeDatabase creates     *)
(* there (sessions, documents, ...) are distinct from the D1 tables.       *)
(*                                                                         *)
(* Strings.  A text is a slice [src, from, to) of an uploaded file's       *)
(* extracted text; substring(0, k) shortens the slice.  Two texts are the  *)
(* same string iff they are the same slice.                                *)
(*                                                                         *)
(* Faults.  Any awaited collaborator call inside a workflow step body, an  *)
(* upload or a tool may throw; MaxFaults bounds how many do in one run.    *)
(* step.do retries a throwing step body; MaxAttempts is the number of      *)
(* attempts the engine gives one step (the code passes no retry config).   *)
(***************************************************************************)
EXTENDS Integers, Sequences, FiniteSets, TLC

\* ------------------------------------------------------------- bounds
MaxChunks == 2      \* most chunks one uploaded text yields
MaxAttempts == 2    \* attempts the workflow engine gives one step
MaxFaults == 2      \* collaborator calls that throw in one behaviour
MaxTime == 2        \* clock ticks (one tick = 24 hours)
MaxTurns == 2       \* chat messages sent to the agent in one behaviour
MaxLenUnits == 12   \* longest text segmented alone, in units of chunkOverlap
MaxPieces == 2      \* text pieces one answer stream yields
MaxBatches == 2     \* full batches of texts one embedding call is split into
MaxQueryUnits == 30  \* longest search query, in units of maxChars / 10

\* -------------------------------------------------- program constants
chunkSize == 1000          \* DEFAULT_CONFIG.chunkSize
chunkOverlap == 200        \* DEFAULT_CONFIG.chunkOverlap
PreviewLen == 200          \* metadata text: chunk.text.substring(0, 200)
SESSION_DURATION == 1      \* 24 * 60 * 60 * 1000 ms, in ticks of 24 hours
DefaultTopK == 5           \* args.topK || 5
DefaultTotalChunks == 0    \* total_chunks INTEGER DEFAULT 0

\* --------------------------------------------------------------- data
DocIds == {1, 2}
OneDoc == {1}
Sessions == {"default", "s1"}     \* "default" is the x-session-id fallback
NoSession == ""                   \* initialState.sessionId
NoNamespace == "<none>"           \* a vector upserted without a namespace
FileNames == {"a.pdf"}
TopKs == {1, DefaultTopK}

Min(a, b) == IF a <= b THEN a ELSE b

\* Lengths of extracted text: empty, one chunk, and k chunks for k <= MaxChunks
TextLens ==
  {0, chunkSize \div 2}
    \cup {chunkSize + (k - 2) * (chunkSize - chunkOverlap) + chunkOverlap :
            k \in 2..MaxChunks}

LongestLen == CHOOSE n \in TextLens : \A m \in TextLens : m <= n

Text(src, from, to) == [src |-> src, from |-> from, to |-> to]
EmptyText == Text(0, 0, 0)
TextLength(t) == t.to - t.from
\* String.prototype.substring(0, k)
Substring0(t, k) == [t EXCEPT !.to = Min(t.to, t.from + k)]

NoDoc == [processing_status |-> "absent"]
NullMetadata == [kind |-> "null", step |-> "none", progress |-> 0, error |-> ""]
NoObject == [present |-> FALSE]

Steps == <<"fetch-and-extract", "chunk-text", "generate-embeddings",
           "store-chunks", "mark-complete">>
StepNames == {Steps[k] : k \in 1..Len(Steps)}
StepIndex(name) == CHOOSE k \in 1..Len(Steps) : Steps[k] = name

VARIABLES
  documents,        \* D1 documents: DocIds -> row or NoDoc
  document_chunks,  \* D1 document_chunks: set of rows
  last_row_id,      \* D1 AUTOINCREMENT sequence of document_chunks
  vectorIndex,      \* Vectorize: set of vectors, at most one per id
  bucket,           \* R2: DocIds -> object or NoObject
  up,               \* handleDocumentUpload, per document id: its position
  wf,               \* DocumentProcessingWorkflow instance per document id
  agent,            \* the Chat Durable Object: state and local SQLite
  tool,             \* the RAG tool call in flight in the agent
  toolResult,       \* what the last tool call returned
  now,              \* Date.now(), in ticks
  faults,           \* collaborator calls that have thrown so far
  chunkLog,         \* history: row id -> what the INSERT of that row wrote
  stepLog,          \* history: per document, step bodies that were entered
  deleted,          \* history: documents whose deletion has completed
  cleanups,         \* history: completed runs of cleanupSession
  request,          \* the HTTP request the worker handled last
  response,         \* the response it returned to that request
  messagesTable,    \* whether the agent's SQLite holds a table `messages`
  messages,         \* the rows of that table, in insertion (ts) order
  state_messages,   \* this.state.messages of the Chat agent
  turn              \* per chat message: where its handler stands

httpVars == <<request, response>>
chatVars == <<messagesTable, messages, state_messages, turn>>

vars == <<documents, document_chunks, last_row_id, vectorIndex, bucket, up, wf,
          agent, tool, toolResult, now, faults, chunkLog, stepLog, deleted,
          cleanups, httpVars, chatVars>>


\* ------------------------------------------------------ pure services
RECURSIVE ChunkWindows_NoOverlap(_, _, _)
\* Windows of chunkSize that start where the previous one ended
ChunkWindows_NoOverlap(text, start, index) ==
  LET end == Min(start + chunkSize, text.to)
      chunk == [text |-> Text(text.src, start, end), index |-> index]
  IN IF end = text.to
     THEN <<chunk>>
     ELSE <<chunk>> \o ChunkWindows_NoOverlap(text, start + chunkSize, index + 1)

\* chunkText with the default config, for a text with no separator in it:
\* the splitter falls through to single characters and merges them into
\* windows of chunkSize that restart chunkOverlap before the previous end.
RECURSIVE ChunkWindows(_, _, _)
ChunkWindows(text, start, index) ==
  LET end == Min(start + chunkSize, text.to)
      chunk == [text |-> Text(text.src, start, end), index |-> index]
  IN IF end = text.to
     THEN <<chunk>>
     ELSE <<chunk>> \o ChunkWindows(text, start + chunkSize - chunkOverlap, index + 1)

chunkText(text) ==
  IF TextLength(text) = 0 THEN <<>> ELSE ChunkWindows(text, text.from, 0)

\* ---------------------------------------------------- embeddings service
MAX_BATCH_SIZE == 100

\* A split that keeps only the first batch
splitIntoBatches_FirstOnly(array, batchSize) ==
  IF Len(array) = 0 THEN <<>>
  ELSE <<SubSeq(array, 1, Min(batchSize, Len(array)))>>

RECURSIVE splitIntoBatches(_, _)
\* splitIntoBatches: array.slice(i, i + batchSize) for i = 0, batchSize, ...
splitIntoBatches(array, batchSize) ==
  IF Len(array) = 0 THEN <<>>
  ELSE <<SubSeq(array, 1, Min(batchSize, Len(array)))>> \o
       splitIntoBatches(SubSeq(array, Min(batchSize, Len(array)) + 1, Len(array)),
                        batchSize)

\* ai.run of the embedding model on one batch: result.data, one vector per
\* text of the batch in the batch's order.  A vector is known by the text it
\* embeds.
AiRunEmbedding(batch) == [k \in 1..Len(batch) |-> [of |-> batch[k]]]

RECURSIVE EmbedBatches(_)
\* The loop over the batches: allEmbeddings.push(...result.data)
EmbedBatches(batches) ==
  IF Len(batches) = 0 THEN <<>>
  ELSE AiRunEmbedding(Head(batches)) \o EmbedBatches(Tail(batches))

\* generateEmbeddings
generateEmbeddings(texts) ==
  IF Len(texts) = 0 THEN <<>>
  ELSE EmbedBatches(splitIntoBatches(texts, MAX_BATCH_SIZE))

\* ---------------------------------------------------- storage service
\* The row INSERT INTO document_chunks binds
ChunkRow(chunkId, sessionId, documentId, chunk) ==
  [id |-> chunkId, session_id |-> sessionId, document_id |-> documentId,
   chunk_index |-> chunk.index, text |-> chunk.text]

\* A vector keyed by the segment's position in the document
VectorizeVector_KeyedByIndex(chunkId, embedding, documentId, sessionId, filename, chunk) ==
  [id |-> chunk.index, namespace |-> NoNamespace, values |-> embedding,
   metadata |-> [documentId |-> documentId, sessionId |-> sessionId,
                 filename |-> filename, chunkIndex |-> chunk.index,
                 text |-> Substring0(chunk.text, PreviewLen)]]

\* The vector storeDocumentChunks pushes for one chunk.  chunkId.toString()
\* is one-to-one on row ids, so the id is kept as the number.  The object
\* carries no namespace property.
VectorizeVector(chunkId, embedding, documentId, sessionId, filename, chunk) ==
  [id |-> chunkId, namespace |-> NoNamespace, values |-> embedding,
   metadata |-> [documentId |-> documentId, sessionId |-> sessionId,
                 filename |-> filename, chunkIndex |-> chunk.index,
                 text |-> Substring0(chunk.text, PreviewLen)]]

SeqRange(s) == {s[k] : k \in 1..Len(s)}

\* VectorizeIndex.upsert: insert, replacing vectors with the same id
Upsert(index, vectors) ==
  {e \in index : e.id \notin {v.id : v \in SeqRange(vectors)}} \cup SeqRange(vectors)

\* VectorizeIndex.deleteByIds
DeleteByIds(index, ids) == {e \in index : e.id \notin ids}

\* UPDATE documents SET processing_status = ?, metadata = ?
\*   WHERE id = ? AND session_id = ?
updateDocumentStatus(docs, documentId, sessionId, status, metadata) ==
  IF docs[documentId] # NoDoc /\ docs[documentId].session_id = sessionId
  THEN [docs EXCEPT ![documentId].processing_status = status,
                    ![documentId].metadata = metadata]
  ELSE docs

\* UPDATE documents SET processing_status = 'ready', total_chunks = ?
\*   WHERE id = ? AND session_id = ?
StoreReadyUpdate(docs, documentId, sessionId, n) ==
  IF docs[documentId] # NoDoc /\ docs[documentId].session_id = sessionId
  THEN [docs EXCEPT ![documentId].processing_status = "ready",
                    ![documentId].total_chunks = n]
  ELSE docs

\* UPDATE documents SET processing_status = 'error', metadata = {error}
StoreErrorUpdate(docs, documentId, sessionId, message) ==
  IF docs[documentId] # NoDoc /\ docs[documentId].session_id = sessionId
  THEN [docs EXCEPT ![documentId].processing_status = "error",
                    ![documentId].metadata =
                       [kind |-> "storeError", step |-> "none", progress |-> 0,
                        error |-> message]]
  ELSE docs

\* DELETE FROM documents WHERE id = ? AND session_id = ?
DeleteDocumentRow(docs, documentId, sessionId) ==
  IF docs[documentId] # NoDoc /\ docs[documentId].session_id = sessionId
  THEN [docs EXCEPT ![documentId] = NoDoc]
  ELSE docs

\* FOREIGN KEY (document_id) REFERENCES documents(id) ON DELETE CASCADE
Cascade(docs, rows) == {r \in rows : docs[r.document_id] # NoDoc}

\* createDocumentRecord's INSERT INTO documents
DocumentRecord(sessionId, filename) ==
  [session_id |-> sessionId, filename |-> filename,
   processing_status |-> "processing", total_chunks |-> DefaultTotalChunks,
   metadata |-> NullMetadata]

\* ----------------------------------------------------------- initial
\* The MIME types an upload or a workflow's params can name, and those
\* extractText has a branch for: 'application/pdf' or any type including
\* 'pdf', the DOCX type or any type including 'wordprocessingml' or 'docx'
PdfType == "application/pdf"
DocxType == "application/vnd.openxmlformats-officedocument.wordprocessingml.document"
MimeTypes == {PdfType, DocxType, "application/x-pdf", "text/plain"}
Supported(fileType) == fileType \in {PdfType, DocxType, "application/x-pdf"}

\* No workflow instance; the fields are those of a started one (fileType is
\* the params' file type: an upload passes one that validation accepted)
NoWorkflow ==
  [pc |-> "none", at |-> "start", attempt |-> 0, sessionId |-> NoSession,
   filename |-> "", fileType |-> PdfType, extracted |-> EmptyText, chunks |-> <<>>,
   embeddings |-> <<>>, i |-> 0, vv |-> <<>>, error |-> "", failedStep |-> ""]

NoTool == [op |-> "none", pc |-> "idle", sessionId |-> NoSession,
           documentId |-> 0, topK |-> 0, found |-> {},
           query |-> EmptyText,      \* args.query of a search
           embedded |-> EmptyText]   \* the text the embedding model was given
NoResult == [kind |-> "none", entries |-> <<>>]

\* No HTTP request handled yet
NoRequest == [kind |-> "none"]
NoResponse == [status |-> 0]

\* The chat messages one behaviour sends to the agent, and a handler that has
\* not been started
Turns == 1..MaxTurns
NoTurn == [pc |-> "idle", plan |-> "none", args |-> 0, result |-> NoResult,
           full |-> <<>>, frames |-> <<>>,
           out |-> [kind |-> "none"],   \* history: what the planner's AI.run gave
           streamed |-> <<>>,     \* history: the pieces the answer stream yielded
           stream |-> "none",     \* history: how the answer stream ended
           visible |-> {}]        \* history: the session's documents when listed

\* Everything but the agent's table `messages`
InitStores ==
  /\ documents = [d \in DocIds |-> NoDoc]
  /\ document_chunks = {}
  /\ last_row_id = 0
  /\ vectorIndex = {}
  /\ bucket = [d \in DocIds |-> NoObject]
  /\ up = [d \in DocIds |-> "none"]
  /\ wf = [d \in DocIds |-> NoWorkflow]
  /\ agent = [sessionId |-> NoSession, lastActivity |-> 0,
              sql_sessions |-> {}, sql_documents |-> {},
              sql_conversation_history |-> <<>>]
  /\ tool = NoTool
  /\ toolResult = NoResult
  /\ now = 0
  /\ faults = 0
  /\ chunkLog = <<>>
  /\ stepLog = [d \in DocIds |-> {}]
  /\ deleted = {}
  /\ cleanups = 0
  /\ request = NoRequest
  /\ response = NoResponse
  /\ messages = <<>>
  /\ state_messages = <<>>
  /\ turn = [t \in Turns |-> NoTurn]

\* A new Durable Object: no code of the agent creates the table `messages`
\* (initializeDatabase creates sessions, documents, document_chunks and
\* conversation_history)
Init ==
  /\ InitStores
  /\ messagesTable = FALSE

\* A Durable Object whose storage may already hold the table `messages`:
\* Chat.onConnect is written for both cases
InitChat ==
  /\ InitStores
  /\ messagesTable \in BOOLEAN

\* A collaborator call may throw while the fault budget lasts
MayThrow == faults < MaxFaults

\* ------------------------------------------------------------ upload
\* `doc-${Date.now()}-${random}`: an id no earlier upload has used
FreshDocId == CHOOSE d \in DocIds : up[d] = "none" /\ \A e \in DocIds : up[e] = "none" => d <= e

\* handleDocumentUpload after validation: DOCUMENTS_BUCKET.put
UploadPut(d, sessionId, filename, len) ==
  /\ up[d] = "none"
  /\ d = FreshDocId
  /\ bucket' = [bucket EXCEPT ![d] =
                  [present |-> TRUE, sessionId |-> sessionId,
                   filename |-> filename, text |-> Text(d, 0, len)]]
  /\ up' = [up EXCEPT ![d] = "put"]
  /\ UNCHANGED <<httpVars, chatVars, documents, document_chunks, last_row_id, vectorIndex, wf, agent,
                 tool, toolResult, now, faults, chunkLog, stepLog, deleted, cleanups>>

\* createDocumentRecord
UploadCreateRecord(d) ==
  /\ up[d] = "put"
  /\ documents' = [documents EXCEPT ![d] =
                     DocumentRecord(bucket[d].sessionId, bucket[d].filename)]
  /\ up' = [up EXCEPT ![d] = "recorded"]
  /\ UNCHANGED <<httpVars, chatVars, document_chunks, last_row_id, vectorIndex, bucket, wf, agent,
                 tool, toolResult, now, faults, chunkLog, stepLog, deleted, cleanups>>

\* DOCUMENT_WORKFLOW.create, then the success response
UploadTrigger(d) ==
  /\ up[d] = "recorded"
  /\ wf' = [wf EXCEPT ![d] =
              [NoWorkflow EXCEPT !.pc = Steps[1], !.attempt = 1,
                                 !.sessionId = bucket[d].sessionId,
                                 !.filename = bucket[d].filename]]
  /\ up' = [up EXCEPT ![d] = "ok"]
  /\ UNCHANGED <<httpVars, chatVars, documents, document_chunks, last_row_id, vectorIndex, bucket,
                 agent, tool, toolResult, now, faults, chunkLog, stepLog, deleted,
                 cleanups>>

\* createDocumentRecord or DOCUMENT_WORKFLOW.create throws: the catch answers
\* 500 and undoes nothing
UploadThrows(d) ==
  /\ up[d] \in {"put", "recorded"}
  /\ MayThrow
  /\ faults' = faults + 1
  /\ up' = [up EXCEPT ![d] = "failed"]
  /\ UNCHANGED <<httpVars, chatVars, documents, document_chunks, last_row_id, vectorIndex, bucket, wf,
                 agent, tool, toolResult, now, chunkLog, stepLog, deleted, cleanups>>


\* ---------------------------------------------------------- workflow
\* step.do: a step body that throws is run again until the engine's attempts
\* are used up; then the error reaches run's catch block
StepThrows(w, message) ==
  IF w.attempt < MaxAttempts
  THEN [w EXCEPT !.attempt = @ + 1, !.at = "start", !.i = 0, !.vv = <<>>]
  ELSE [w EXCEPT !.pc = "catch", !.at = "start", !.i = 0, !.vv = <<>>,
                 !.error = message, !.failedStep = w.pc]

\* step.do: the step body returned; its output is recorded and the next begins
StepReturns(w) ==
  [w EXCEPT !.pc = IF StepIndex(w.pc) < Len(Steps)
                   THEN Steps[StepIndex(w.pc) + 1] ELSE "complete",
            !.at = "start", !.attempt = 1, !.i = 0, !.vv = <<>>]

ProgressOf(step) ==
  CASE step = "fetch-and-extract" -> [kind |-> "progress", step |-> "extracting", progress |-> 20, error |-> ""]
    [] step = "chunk-text" -> [kind |-> "progress", step |-> "chunking", progress |-> 40, error |-> ""]
    [] step = "generate-embeddings" -> [kind |-> "progress", step |-> "embedding", progress |-> 60, error |-> ""]
    [] step = "store-chunks" -> [kind |-> "progress", step |-> "indexing", progress |-> 80, error |-> ""]

CompleteProgress ==
  [kind |-> "progress", step |-> "complete", progress |-> 100, error |-> ""]

\* The message of the error a step body throws, by the call that failed
ThrownBy(step) ==
  CASE step = "fetch-and-extract" -> "Failed to extract text"
    [] step = "chunk-text" -> "Failed to chunk text"
    [] step = "generate-embeddings" -> "Failed to generate embeddings"
    [] step = "store-chunks" -> "Failed to store document"
    [] step = "mark-complete" -> "Failed to update document status"

\* updateProgress writing the final status instead of 'processing'
updateProgress_Ready(docs, documentId, sessionId, progress) ==
  updateDocumentStatus(docs, documentId, sessionId, "ready", progress)

\* updateProgress: the helper every step but the last calls first
updateProgress(docs, documentId, sessionId, progress) ==
  updateDocumentStatus(docs, documentId, sessionId, "processing", progress)

\* Steps 1-4, first statement of the body: await updateProgress(...)
StepProgress(d) ==
  /\ wf[d].pc \in {Steps[k] : k \in 1..4}
  /\ wf[d].at = "start"
  /\ documents' = updateProgress(documents, d, wf[d].sessionId, ProgressOf(wf[d].pc))
  /\ wf' = [wf EXCEPT ![d].at = "body"]
  /\ stepLog' = [stepLog EXCEPT ![d] = @ \cup {wf[d].pc}]
  /\ UNCHANGED <<httpVars, chatVars, document_chunks, last_row_id, vectorIndex, bucket, up, agent, tool,
                 toolResult, now, faults, chunkLog, deleted, cleanups>>

\* Step 1: DOCUMENTS_BUCKET.get, extractText; returns {text, pageCount}.
\* extractText throws a plain Error for a file type it has no branch for.
FetchAndExtract(d) ==
  /\ wf[d].pc = "fetch-and-extract"
  /\ wf[d].at = "body"
  /\ wf' = [wf EXCEPT ![d] =
              IF ~bucket[d].present
              THEN StepThrows(wf[d], "File not found in R2")
              ELSE IF ~Supported(wf[d].fileType)
                   THEN StepThrows(wf[d], ThrownBy("fetch-and-extract"))
                   ELSE StepReturns([wf[d] EXCEPT !.extracted = bucket[d].text])]
  /\ UNCHANGED <<httpVars, chatVars, documents, document_chunks, last_row_id, vectorIndex, bucket, up,
                 agent, tool, toolResult, now, faults, chunkLog, stepLog, deleted,
                 cleanups>>

\* Step 2: chunkText(extracted.text)
ChunkTextStep(d) ==
  /\ wf[d].pc = "chunk-text"
  /\ wf[d].at = "body"
  /\ wf' = [wf EXCEPT ![d] =
              StepReturns([wf[d] EXCEPT !.chunks = chunkText(wf[d].extracted)])]
  /\ UNCHANGED <<httpVars, chatVars, documents, document_chunks, last_row_id, vectorIndex, bucket, up,
                 agent, tool, toolResult, now, faults, chunkLog, stepLog, deleted,
                 cleanups>>

\* Step 3: generateEmbeddings(chunks.map(chunk => chunk.text))
GenerateEmbeddingsStep(d) ==
  /\ wf[d].pc = "generate-embeddings"
  /\ wf[d].at = "body"
  /\ wf' = [wf EXCEPT ![d] =
              StepReturns([wf[d] EXCEPT !.embeddings =
                 generateEmbeddings([k \in 1..Len(wf[d].chunks) |-> wf[d].chunks[k].text])])]
  /\ UNCHANGED <<httpVars, chatVars, documents, document_chunks, last_row_id, vectorIndex, bucket, up,
                 agent, tool, toolResult, now, faults, chunkLog, stepLog, deleted,
                 cleanups>>

\* Step 4, storeDocumentChunks entry: the length check and the empty return
StoreBegin(d) ==
  /\ wf[d].pc = "store-chunks"
  /\ wf[d].at = "body"
  /\ wf' = [wf EXCEPT ![d] =
              IF Len(wf[d].chunks) # Len(wf[d].embeddings)
              THEN StepThrows(wf[d], "Chunk count does not match embedding count")
              ELSE IF Len(wf[d].chunks) = 0
                   THEN StepReturns(wf[d])
                   ELSE [wf[d] EXCEPT !.at = "insert", !.i = 0, !.vv = <<>>]]
  /\ UNCHANGED <<httpVars, chatVars, documents, document_chunks, last_row_id, vectorIndex, bucket, up,
                 agent, tool, toolResult, now, faults, chunkLog, stepLog, deleted,
                 cleanups>>

\* Step 4, one iteration of the loop: INSERT INTO document_chunks, then push
\* the vector keyed by last_row_id.  The insert violates the foreign key when
\* the document row is gone.
StoreInsert(d) ==
  /\ wf[d].pc = "store-chunks"
  /\ wf[d].at = "insert"
  /\ wf[d].i < Len(wf[d].chunks)
  /\ LET w == wf[d]
         chunk == w.chunks[w.i + 1]
         chunkId == last_row_id + 1
     IN IF documents[d] = NoDoc
        THEN /\ wf' = [wf EXCEPT ![d].at = "storeCatch",
                                 ![d].error = "FOREIGN KEY constraint failed"]
             /\ UNCHANGED <<httpVars, chatVars, document_chunks, last_row_id, chunkLog>>
        ELSE /\ document_chunks' = document_chunks \cup
                                     {ChunkRow(chunkId, w.sessionId, d, chunk)}
             /\ last_row_id' = chunkId
             /\ chunkLog' = Append(chunkLog, ChunkRow(chunkId, w.sessionId, d, chunk))
             /\ wf' = [wf EXCEPT ![d].i = @ + 1,
                                 ![d].vv = Append(@, VectorizeVector(chunkId,
                                             w.embeddings[w.i + 1], d, w.sessionId,
                                             w.filename, chunk))]
  /\ UNCHANGED <<httpVars, chatVars, documents, vectorIndex, bucket, up, agent, tool, toolResult, now,
                 faults, stepLog, deleted, cleanups>>

\* Step 4, after the loop: vectorIndex.upsert(vectorizeVectors)
StoreUpsert(d) ==
  /\ wf[d].pc = "store-chunks"
  /\ wf[d].at = "insert"
  /\ wf[d].i = Len(wf[d].chunks)
  /\ vectorIndex' = Upsert(vectorIndex, wf[d].vv)
  /\ wf' = [wf EXCEPT ![d].at = "status"]
  /\ UNCHANGED <<httpVars, chatVars, documents, document_chunks, last_row_id, bucket, up, agent, tool,
                 toolResult, now, faults, chunkLog, stepLog, deleted, cleanups>>

\* Step 4, last statement of storeDocumentChunks: status 'ready', total_chunks
StoreStatus(d) ==
  /\ wf[d].pc = "store-chunks"
  /\ wf[d].at = "status"
  /\ documents' = StoreReadyUpdate(documents, d, wf[d].sessionId, Len(wf[d].chunks))
  /\ wf' = [wf EXCEPT ![d] = StepReturns(wf[d])]
  /\ UNCHANGED <<httpVars, chatVars, document_chunks, last_row_id, vectorIndex, bucket, up, agent, tool,
                 toolResult, now, faults, chunkLog, stepLog, deleted, cleanups>>

\* Step 4, storeDocumentChunks' catch: status 'error' with the message, then
\* rethrow as "Failed to store document: ..."
StoreCatch(d) ==
  /\ wf[d].pc = "store-chunks"
  /\ wf[d].at = "storeCatch"
  /\ documents' = StoreErrorUpdate(documents, d, wf[d].sessionId, wf[d].error)
  /\ wf' = [wf EXCEPT ![d] = StepThrows(wf[d], ThrownBy("store-chunks"))]
  /\ UNCHANGED <<httpVars, chatVars, document_chunks, last_row_id, vectorIndex, bucket, up, agent, tool,
                 toolResult, now, faults, chunkLog, stepLog, deleted, cleanups>>

\* Step 5: updateDocumentStatus(..., 'ready', {step: 'complete', progress: 100})
MarkComplete(d) ==
  /\ wf[d].pc = "mark-complete"
  /\ wf[d].at = "start"
  /\ documents' = updateDocumentStatus(documents, d, wf[d].sessionId, "ready",
                                       CompleteProgress)
  /\ wf' = [wf EXCEPT ![d] = StepReturns(wf[d])]
  /\ stepLog' = [stepLog EXCEPT ![d] = @ \cup {"mark-complete"}]
  /\ UNCHANGED <<httpVars, chatVars, document_chunks, last_row_id, vectorIndex, bucket, up, agent, tool,
                 toolResult, now, faults, chunkLog, deleted, cleanups>>

\* The awaited call at the current position of a step body throws.  Inside
\* storeDocumentChunks' try block the error goes to its catch first.
StepCallThrows(d) ==
  /\ wf[d].pc \in StepNames
  /\ wf[d].at \in {"start", "body", "insert", "status"}
  /\ ~(wf[d].pc = "store-chunks" /\ wf[d].at = "body")
  /\ ~(wf[d].pc = "chunk-text" /\ wf[d].at = "body")
  /\ MayThrow
  /\ faults' = faults + 1
  /\ wf' = [wf EXCEPT ![d] =
              IF wf[d].at \in {"insert", "status"}
              THEN [wf[d] EXCEPT !.at = "storeCatch", !.error = "D1 or Vectorize error"]
              ELSE StepThrows(wf[d], IF wf[d].at = "start"
                                     THEN "Failed to update document status"
                                     ELSE ThrownBy(wf[d].pc))]
  /\ stepLog' = [stepLog EXCEPT ![d] = @ \cup {wf[d].pc}]
  /\ UNCHANGED <<httpVars, chatVars, documents, document_chunks, last_row_id, vectorIndex, bucket, up,
                 agent, tool, toolResult, now, chunkLog, deleted, cleanups>>

\* The catch block reporting through the progress helper: status 'processing'
RunCatchUpdate_Processing(docs, documentId, sessionId, message) ==
  updateDocumentStatus(docs, documentId, sessionId, "processing",
     [kind |-> "runError", step |-> "unknown", progress |-> 0, error |-> message])

\* run's catch block: updateDocumentStatus(..., 'error', {error, step: 'unknown',
\* progress: 0, message: 'Processing failed'})
RunCatchUpdate(docs, documentId, sessionId, message) ==
  updateDocumentStatus(docs, documentId, sessionId, "error",
     [kind |-> "runError", step |-> "unknown", progress |-> 0, error |-> message])

\* run's catch block, then the rethrow: the workflow instance ends errored
RunCatch(d) ==
  /\ wf[d].pc = "catch"
  /\ documents' = RunCatchUpdate(documents, d, wf[d].sessionId, wf[d].error)
  /\ wf' = [wf EXCEPT ![d].pc = "errored"]
  /\ UNCHANGED <<httpVars, chatVars, document_chunks, last_row_id, vectorIndex, bucket, up, agent, tool,
                 toolResult, now, faults, chunkLog, stepLog, deleted, cleanups>>


\* storeDocumentChunks' catch, when its own UPDATE throws: the inner catch
\* only logs, and the error is rethrown all the same
StoreCatchThrows(d) ==
  /\ wf[d].pc = "store-chunks"
  /\ wf[d].at = "storeCatch"
  /\ MayThrow
  /\ faults' = faults + 1
  /\ wf' = [wf EXCEPT ![d] = StepThrows(wf[d], ThrownBy("store-chunks"))]
  /\ UNCHANGED <<httpVars, chatVars, documents, document_chunks, last_row_id, vectorIndex, bucket, up,
                 agent, tool, toolResult, now, chunkLog, stepLog, deleted, cleanups>>

\* ------------------------------------------------------------- agent
\* cleanupSession: every statement runs on this.sql, the agent's own SQLite;
\* the R2 keys it deletes are those of the rows it finds there.  It does not
\* touch the Vectorize index.
cleanupSession(a) ==
  [a EXCEPT !.sql_documents = {r \in @ : r.session_id # a.sessionId},
            !.sql_conversation_history = SelectSeq(@, LAMBDA m : m.session_id # a.sessionId),
            !.sql_sessions = @ \ {a.sessionId}]

cleanupSessionBucket(a, b) ==
  [d \in DocIds |->
     IF \E r \in a.sql_documents : r.session_id = a.sessionId /\ r.r2_key = d
     THEN NoObject ELSE b[d]]

\* A connection that loads nothing
ChatLoadMessages_Nothing(stateMessages) == stateMessages

\* Chat.onConnect after super.onConnect: when state.messages is missing or
\* empty the rows of the table are loaded; a missing table leaves the state as
\* it is.  (A new session's setState drops state.messages; undefined and []
\* are both the empty list here: the only statement that tells them apart,
\* the spread in #handleChatMessage, follows an INSERT that throws when the
\* table is missing.)
ChatLoadMessages(stateMessages) ==
  IF Len(stateMessages) = 0 /\ messagesTable THEN messages ELSE stateMessages

\* Chat.onConnect: RAGAgent.onConnect, then the messages are loaded.  header
\* is the request's x-session-id, NoSession when the request carries none.
OnConnect(header) ==
  LET sessionId == IF header = NoSession THEN "default" ELSE header
      isNewSession == agent.sessionId = NoSession \/ agent.sessionId # sessionId
      sessionAge == now - agent.lastActivity
      expired == sessionAge > SESSION_DURATION /\ agent.sessionId # NoSession
      cleaned == IF expired THEN cleanupSession(agent) ELSE agent
  IN /\ IF isNewSession
        THEN /\ agent' = [cleaned EXCEPT !.sessionId = sessionId,
                                         !.lastActivity = now,
                                         !.sql_sessions = @ \cup {sessionId}]
             /\ bucket' = IF expired THEN cleanupSessionBucket(agent, bucket) ELSE bucket
             /\ cleanups' = IF expired THEN cleanups + 1 ELSE cleanups
        ELSE /\ agent' = [agent EXCEPT !.lastActivity = now]
             /\ UNCHANGED <<bucket, cleanups>>
     /\ state_messages' = ChatLoadMessages(IF isNewSession THEN <<>> ELSE state_messages)
     /\ UNCHANGED <<httpVars, messagesTable, messages, turn, documents, document_chunks, last_row_id, vectorIndex, up, wf,
                    tool, toolResult, now, faults, chunkLog, stepLog, deleted>>

\* Date.now() advances
Tick ==
  /\ now < MaxTime
  /\ now' = now + 1
  /\ UNCHANGED <<httpVars, chatVars, documents, document_chunks, last_row_id, vectorIndex, bucket, up,
                 wf, agent, tool, toolResult, faults, chunkLog, stepLog, deleted,
                 cleanups>>

\* ------------------------------------------------------------- tools
RECURSIVE ById(_)
\* The vectors of a set as a list, by ascending id
ById(S) ==
  IF S = {} THEN <<>>
  ELSE LET m == CHOOSE e \in S : \A f \in S : e.id <= f.id
       IN <<m>> \o ById(S \ {m})

\* VECTOR_INDEX.query(embedding, {topK, namespace}): the topK nearest vectors
\* among those stored under the namespace; fewer when fewer are stored
VectorizeQuery(index, namespace, topK) ==
  LET eligible == {e \in index : e.namespace = namespace}
      n == Min(topK, Cardinality(eligible))
  IN {ById(M) : M \in {X \in SUBSET eligible : Cardinality(X) = n}}

\* The index answering from every vector it stores, namespace or not
VectorizeQueryAny(index, namespace, topK) ==
  LET n == Min(topK, Cardinality(index))
  IN {ById(M) : M \in {X \in SUBSET index : Cardinality(X) = n}}

\* The join without its session predicate
D1SelectChunks_AnySession(rows, docs, chunkIds, sessionId) ==
  {r \in rows : r.id \in chunkIds /\ docs[r.document_id] # NoDoc}

\* SELECT ... FROM document_chunks dc JOIN documents d ON dc.document_id = d.id
\*   WHERE dc.id IN (chunkIds) AND dc.session_id = ?
D1SelectChunks(rows, docs, chunkIds, sessionId) ==
  {r \in rows : /\ r.id \in chunkIds
                /\ r.session_id = sessionId
                /\ docs[r.document_id] # NoDoc}

\* A result whose text is read from the vector's metadata mirror
SearchResult_FromMetadata(match, chunks, docs) ==
  LET hit == {c \in chunks : c.id = match.id}
  IN IF hit # {}
     THEN LET chunk == CHOOSE c \in hit : TRUE
          IN [match |-> match.id, found |-> TRUE, text |-> match.metadata.text,
              filename |-> docs[chunk.document_id].filename,
              chunkIndex |-> chunk.chunk_index]
     ELSE [match |-> match.id, found |-> FALSE, text |-> EmptyText,
           filename |-> "Unknown", chunkIndex |-> 0]

\* One formatted result: the text and citation come from the joined row, ''
\* and 'Unknown' when the match has none.  match is kept to tell which vector
\* the line answers.
SearchResult(match, chunks, docs) ==
  LET hit == {c \in chunks : c.id = match.id}
  IN IF hit # {}
     THEN LET chunk == CHOOSE c \in hit : TRUE
          IN [match |-> match.id, found |-> TRUE, text |-> chunk.text,
              filename |-> docs[chunk.document_id].filename,
              chunkIndex |-> chunk.chunk_index]
     ELSE [match |-> match.id, found |-> FALSE, text |-> EmptyText,
           filename |-> "Unknown", chunkIndex |-> 0]

\* searchDocuments from the D1 query on
SearchOutcome(matches, rows, docs, sessionId) ==
  LET chunks == D1SelectChunks(rows, docs, {matches[k].id : k \in 1..Len(matches)},
                               sessionId)
  IN IF chunks = {}
     THEN [kind |-> "nothing", sessionId |-> sessionId, entries |-> <<>>]
     ELSE [kind |-> "results", sessionId |-> sessionId,
           entries |-> [k \in 1..Len(matches) |-> SearchResult(matches[k], chunks, docs)]]

\* searchDocuments up to the Vectorize query, given the index's answer
SearchBegin(topK, matches) ==
  /\ tool.op = "none"
  /\ IF agent.sessionId = NoSession
     THEN /\ toolResult' = [kind |-> "no-session", sessionId |-> NoSession, entries |-> <<>>]
          /\ tool' = NoTool
     ELSE IF Len(matches) = 0
          THEN /\ toolResult' = [kind |-> "nothing", sessionId |-> agent.sessionId,
                                 entries |-> <<>>]
               /\ tool' = NoTool
          ELSE /\ tool' = [NoTool EXCEPT !.op = "search", !.pc = "join",
                                         !.sessionId = agent.sessionId,
                                         !.topK = topK, !.found = matches]
               /\ toolResult' = NoResult
  /\ UNCHANGED <<httpVars, chatVars, documents, document_chunks, last_row_id, vectorIndex, bucket, up,
                 wf, agent, now, faults, chunkLog, stepLog, deleted, cleanups>>

SearchQuery(topK) ==
  \E matches \in VectorizeQuery(vectorIndex, agent.sessionId, topK) :
     SearchBegin(topK, matches)

SearchQueryAny(topK) ==
  \E matches \in VectorizeQueryAny(vectorIndex, agent.sessionId, topK) :
     SearchBegin(topK, matches)

\* searchDocuments: the D1 query and the formatting
SearchJoin ==
  /\ tool.op = "search"
  /\ tool.pc = "join"
  /\ toolResult' = SearchOutcome(tool.found, document_chunks, documents, tool.sessionId)
  /\ tool' = NoTool
  /\ UNCHANGED <<httpVars, chatVars, documents, document_chunks, last_row_id, vectorIndex, bucket, up,
                 wf, agent, now, faults, chunkLog, stepLog, deleted, cleanups>>

\* deleteDocument: SELECT filename FROM documents WHERE id = ? AND session_id = ?
DeleteLookup(d) ==
  /\ tool.op = "none"
  /\ up[d] # "none"
  /\ IF agent.sessionId = NoSession
     THEN /\ toolResult' = [kind |-> "no-session", sessionId |-> NoSession, entries |-> <<>>]
          /\ tool' = NoTool
     ELSE IF documents[d] = NoDoc \/ documents[d].session_id # agent.sessionId
          THEN /\ toolResult' = [kind |-> "not-found", sessionId |-> agent.sessionId,
                                 entries |-> <<>>]
               /\ tool' = NoTool
          ELSE /\ tool' = [NoTool EXCEPT !.op = "delete", !.pc = "select",
                                         !.sessionId = agent.sessionId,
                                         !.documentId = d]
               /\ toolResult' = NoResult
  /\ UNCHANGED <<httpVars, chatVars, documents, document_chunks, last_row_id, vectorIndex, bucket, up,
                 wf, agent, now, faults, chunkLog, stepLog, deleted, cleanups>>

\* deleteDocument: SELECT id FROM document_chunks WHERE document_id = ? AND session_id = ?
DeleteSelectChunks ==
  /\ tool.op = "delete"
  /\ tool.pc = "select"
  /\ tool' = [tool EXCEPT !.pc = "vectors",
                          !.found = {r.id : r \in {x \in document_chunks :
                                        /\ x.document_id = tool.documentId
                                        /\ x.session_id = tool.sessionId}}]
  /\ UNCHANGED <<httpVars, chatVars, documents, document_chunks, last_row_id, vectorIndex, bucket, up,
                 wf, agent, toolResult, now, faults, chunkLog, stepLog, deleted,
                 cleanups>>

\* deleteDocument: VECTOR_INDEX.deleteByIds(vectorIds) when there are chunks
DeleteVectors ==
  /\ tool.op = "delete"
  /\ tool.pc = "vectors"
  /\ vectorIndex' = IF tool.found # {} THEN DeleteByIds(vectorIndex, tool.found)
                    ELSE vectorIndex
  /\ tool' = [tool EXCEPT !.pc = "row"]
  /\ UNCHANGED <<httpVars, chatVars, documents, document_chunks, last_row_id, bucket, up, wf, agent,
                 toolResult, now, faults, chunkLog, stepLog, deleted, cleanups>>

\* deleteDocument: DELETE FROM documents WHERE id = ? AND session_id = ?,
\* cascading to document_chunks; then the success message
DeleteRow ==
  /\ tool.op = "delete"
  /\ tool.pc = "row"
  /\ documents' = DeleteDocumentRow(documents, tool.documentId, tool.sessionId)
  /\ document_chunks' = Cascade(documents', document_chunks)
  /\ toolResult' = [kind |-> "deleted", sessionId |-> tool.sessionId, entries |-> <<>>]
  /\ deleted' = deleted \cup {tool.documentId}
  /\ tool' = NoTool
  /\ UNCHANGED <<httpVars, chatVars, last_row_id, vectorIndex, bucket, up, wf, agent, now, faults,
                 chunkLog, stepLog, cleanups>>

\* An awaited call of the tool in flight throws: the tool's catch returns the
\* error text
ToolThrows ==
  /\ tool.op # "none"
  /\ MayThrow
  /\ faults' = faults + 1
  /\ toolResult' = [kind |-> "error", sessionId |-> tool.sessionId, entries |-> <<>>]
  /\ tool' = NoTool
  /\ UNCHANGED <<httpVars, chatVars, documents, document_chunks, last_row_id, vectorIndex, bucket, up,
                 wf, agent, now, chunkLog, stepLog, deleted, cleanups>>

\* ------------------------------------------------------ specification
Workflow(d) ==
  \/ StepProgress(d)
  \/ FetchAndExtract(d)
  \/ ChunkTextStep(d)
  \/ GenerateEmbeddingsStep(d)
  \/ StoreBegin(d)
  \/ StoreInsert(d)
  \/ StoreUpsert(d)
  \/ StoreStatus(d)
  \/ StoreCatch(d)
  \/ MarkComplete(d)
  \/ RunCatch(d)

Upload(d, lens) ==
  \/ \E sessionId \in Sessions, filename \in FileNames, len \in lens :
        UploadPut(d, sessionId, filename, len)
  \/ UploadCreateRecord(d)
  \/ UploadTrigger(d)

\* The collaborator failures
Throws(d) ==
  \/ UploadThrows(d)
  \/ StepCallThrows(d)
  \/ StoreCatchThrows(d)

DeleteTool ==
  \/ \E d \in DocIds : DeleteLookup(d)
  \/ DeleteSelectChunks
  \/ DeleteVectors
  \/ DeleteRow

\* One uploaded document, every operation, collaborator failures and time.
\* The index answers a query from the vectors of the query's namespace: the
\* vectors are upserted without one, so searchDocuments returns at its first
\* "No relevant information" and never reaches its D1 query here.
Next ==
  \/ \E d \in OneDoc : Upload(d, TextLens)
  \/ \E d \in OneDoc : Workflow(d)
  \/ \E d \in OneDoc : Throws(d)
  \/ \E header \in Sessions \cup {NoSession} : OnConnect(header)
  \/ Tick
  \/ \E topK \in TopKs : SearchQuery(topK)
  \/ DeleteTool
  \/ ToolThrows

Spec == Init /\ [][Next]_vars

\* Several documents of several chunks in several sessions, no collaborator failure other than
\* the foreign key, and the index free to answer a query from any vector it
\* stores, whatever its namespace
NextAnyMatch ==
  \/ \E d \in DocIds : Upload(d, {LongestLen})
  \/ \E d \in DocIds : Workflow(d)
  \/ \E header \in Sessions \cup {NoSession} : OnConnect(header)
  \/ \E topK \in TopKs : SearchQueryAny(topK)
  \/ SearchJoin
  \/ DeleteTool

SpecAnyMatch == Init /\ [][NextAnyMatch]_vars


\* ------------------------------------------------------------ claims
Status(d) == documents[d].processing_status
RowsOf(d) == {r \in document_chunks : r.document_id = d}
VectorsOf(d) == {e \in vectorIndex : e.metadata.documentId = d}
Entries == {toolResult.entries[k] : k \in 1..Len(toolResult.entries)}
\* The session an uploaded text belongs to: that of the upload that stored it
OwnerOf(text) == bucket[text.src].sessionId

\* C1: a search run for session A returns neither text nor a citation of a
\* segment created under another session: every result line either answers a
\* row that was inserted under A, with text of a file uploaded under A, or
\* is the empty placeholder.
C1_SearchIsolation ==
  toolResult.kind = "results" =>
    \A e \in Entries :
      /\ e.found => chunkLog[e.match].session_id = toolResult.sessionId
      /\ e.text # EmptyText => OwnerOf(e.text) = toolResult.sessionId
      /\ ~e.found => e.text = EmptyText /\ e.filename = "Unknown"

\* A search of one session returned its own segment while a vector of another
\* session's segment was among the index's matches
C1_Witness ==
  /\ toolResult.kind = "results"
  /\ \E e \in Entries : e.found /\ e.text # EmptyText
  /\ \E e \in Entries : chunkLog[e.match].session_id # toolResult.sessionId

BecomesReady(d) ==
  /\ Status(d) # "ready"
  /\ documents'[d].processing_status = "ready"

C3_ErrorIsFinal ==
  [][\A d \in DocIds :
       Status(d) = "error" =>
         documents'[d] = NoDoc \/ documents'[d].processing_status = "error"]_vars

BeingDeleted(d) == tool.op = "delete" /\ tool.documentId = d

\* C4: for every ready document (not in the middle of a deletion) total_chunks
\* equals the number of its rows and the number of its vectors.
C4_CountsAgree ==
  \A d \in DocIds :
    Status(d) = "ready" /\ ~BeingDeleted(d) =>
      /\ documents[d].total_chunks = Cardinality(RowsOf(d))
      /\ documents[d].total_chunks = Cardinality(VectorsOf(d))

\* C5: however often the persist step runs for a document, no segment and no
\* vector of it is stored twice: one row and one vector per chunk index.
C5_PersistIdempotent ==
  /\ \A r1, r2 \in document_chunks :
       r1.document_id = r2.document_id /\ r1.chunk_index = r2.chunk_index
         => r1 = r2
  /\ \A e1, e2 \in vectorIndex :
       /\ e1.metadata.documentId = e2.metadata.documentId
       /\ e1.metadata.chunkIndex = e2.metadata.chunkIndex
       => e1 = e2

\* C6: once the deletion of a document has completed, no row and no vector of
\* it remains and no search returns text of it.
C6_DeleteRemovesAll ==
  \A d \in deleted :
    /\ RowsOf(d) = {}
    /\ VectorsOf(d) = {}
    /\ \A e \in Entries : e.text = EmptyText \/ e.text.src # d

\* C7: a document whose extracted text is empty is never ready, and its
\* workflow ends with status error and a non-empty error message.
C7_EmptyTextEndsInError ==
  \A d \in DocIds :
    bucket[d].present /\ TextLength(bucket[d].text) = 0 /\ documents[d] # NoDoc =>
      /\ Status(d) # "ready"
      /\ wf[d].pc \in {"complete", "errored"} =>
           Status(d) = "error" /\ documents[d].metadata.error # ""

LaterSteps(step) == {Steps[k] : k \in (StepIndex(step) + 1)..Len(Steps)}

C9_CleanupRemovesAll ==
  [][cleanups' # cleanups =>
       /\ \A d \in DocIds : documents'[d] = NoDoc \/ documents'[d].session_id # agent.sessionId
       /\ \A r \in document_chunks' : r.session_id # agent.sessionId
       /\ \A e \in vectorIndex' : e.metadata.sessionId # agent.sessionId]_vars

\* C10: the text of a result line that answers a stored segment is exactly
\* the text persist wrote to the row store for that segment.
C10_SearchReturnsRowText ==
  toolResult.kind = "results" =>
    \A e \in Entries : e.found => e.text = chunkLog[e.match].text

\* A search returned a segment whose text is longer than the metadata preview
C10_Witness ==
  /\ toolResult.kind = "results"
  /\ \E e \in Entries : e.found /\ TextLength(e.text) > PreviewLen

\* C11: every vector persist wrote for a segment of session S is keyed by the
\* segment's row id and stored under namespace S, so that a query restricted
\* to namespace S can return it and a query restricted to another namespace
\* cannot.
C11_VectorsInSessionNamespace ==
  \A e \in vectorIndex :
    /\ e.id \in DOMAIN chunkLog
    /\ e.namespace = chunkLog[e.id].session_id
    /\ \E matches \in VectorizeQuery(vectorIndex, chunkLog[e.id].session_id,
                                    Cardinality(vectorIndex)) :
         e \in SeqRange(matches)
    /\ \A other \in Sessions \ {chunkLog[e.id].session_id} :
         \A matches \in VectorizeQuery(vectorIndex, other, Cardinality(vectorIndex)) :
           e \notin SeqRange(matches)

\* -------------------------------------------------------------- chat
\* Message texts are lists of parts; a part is a fixed string or the k-th
\* piece of a streamed answer
Str(s) == [s |-> s, n |-> 0]
Piece(k) == [s |-> "piece", n |-> k]
UserText == <<Str("user text")>>
StreamErrorMark == <<Str("_(stream error)_")>>
NoResponseText == <<Str("[no response]")>>

\* A row of the table messages / an element of state.messages (ts is the
\* position in the list); turn is history: the chat message that caused it
Msg(role, content, t) == [role |-> role, content |-> content, turn |-> t]

\* Frames sent on the connection
Delta(text) == [type |-> "delta", text |-> text]
Done == [type |-> "done", text |-> <<>>]
ToolEvent(status) == [type |-> "tool", text |-> <<Str(status)>>]

\* What the planner can make of the model's output: one of the three tools
\* or none (null)
Plans == {"none", "search_documents", "list_documents", "delete_document"}
\* The arguments of the plan (toolPlan.args): a document id standing for an
\* object with the tool's parameter, or 0 when the arguments are null
PlanArgs(tl) == IF tl \in {"search_documents", "delete_document"}
                THEN OneDoc \cup {0} ELSE {0}

\* What function.arguments of a tool call can be besides a document id:
\* absent (undefined), JSON null, or a string that is not JSON (the planner
\* makes {} of it)
MissingArgs == 0 - 2
EmptyArgs == 0 - 1
NullArgs == 0
ToolNames == Plans \ {"none"}
\* function.name of a tool call: a tool, another name, or none at all (a
\* call without a function member among them)
CallNames == ToolNames \cup {"other_tool", "<missing>"}
Calls == [name : CallNames, arguments : {MissingArgs, EmptyArgs, NullArgs} \cup OneDoc]

\* What the planner's AI.run gives: it throws, it returns something that is
\* not an object, or an object with a list of tool calls (no tool_calls
\* member, or one that is not an array, is the empty list)
ToolCalls(calls) == [kind |-> "object", tool_calls |-> calls]
PlannerOutputs ==
  {[kind |-> "threw"], [kind |-> "not-object"]}
    \cup {ToolCalls(<<>>)}
    \cup {ToolCalls(<<c>>) : c \in Calls}
    \cup {ToolCalls(<<c, e>>) : c \in Calls, e \in Calls}
\* The outputs with at most one call, which names a tool and carries
\* arguments or null
SingleCallOutputs ==
  {ToolCalls(<<>>)}
    \cup UNION {{ToolCalls(<<[name |-> tl, arguments |-> a]>>) : a \in PlanArgs(tl)}
                   : tl \in ToolNames}

NoPlan == [tool |-> "none", args |-> 0]

\* A planner that takes the last tool call of the list
planWithAllTools_LastCall(out) ==
  IF out.kind # "object" THEN NoPlan
  ELSE IF Len(out.tool_calls) = 0 THEN NoPlan
  ELSE LET call == out.tool_calls[Len(out.tool_calls)]
       IN IF call.name \notin ToolNames THEN NoPlan
          ELSE IF call.arguments = MissingArgs THEN NoPlan
          ELSE [tool |-> call.name, args |-> call.arguments]

\* #planWithAllTools from the return of AI.run: null unless the first tool
\* call names one of the three tools; absent arguments make the log
\* statement throw (JSON.stringify(undefined).slice), which the catch turns
\* into null as well
planWithAllTools(out) ==
  IF out.kind # "object" THEN NoPlan
  ELSE IF Len(out.tool_calls) = 0 THEN NoPlan
  ELSE LET call == out.tool_calls[1]
       IN IF call.name \notin ToolNames THEN NoPlan
          ELSE IF call.arguments = MissingArgs THEN NoPlan
          ELSE [tool |-> call.name, args |-> call.arguments]

\* The "Let me ..." line sent and saved before a tool runs
PreText(tl) ==
  CASE tl = "search_documents" -> <<Str("Let me search through your documents...")>>
    [] tl = "list_documents" -> <<Str("Let me check your documents...")>>
    [] tl = "delete_document" -> <<Str("Let me delete that document...")>>

\* The message of the catch block around a tool call
Apology(tl) ==
  CASE tl = "search_documents" -> <<Str("I couldn't search the documents. Please try again.")>>
    [] tl = "list_documents" -> <<Str("I couldn't list the documents. Please try again.")>>
    [] tl = "delete_document" -> <<Str("I couldn't delete the document. Please try again.")>>

pipelineVars == <<documents, document_chunks, last_row_id, vectorIndex, bucket, up,
                  wf, agent, tool, toolResult, now, chunkLog, stepLog, deleted,
                  cleanups>>

\* The turn's frames and position after frames fs were sent
Sent(tr, fs) == [tr EXCEPT !.frames = @ \o fs]

\* onMessage with a chat message of non-empty text: #handleChatMessage up to
\* its first await on a collaborator.  INSERT INTO messages throws when the
\* table is missing, and the handler ends there.
ChatMessage(t) ==
  /\ turn[t].pc = "idle"
  /\ \A u \in Turns : u < t => turn[u].pc # "idle"
  /\ agent.sessionId # NoSession
  /\ IF messagesTable
     THEN /\ messages' = Append(messages, Msg("user", UserText, t))
          /\ state_messages' = Append(state_messages, Msg("user", UserText, t))
          /\ turn' = [turn EXCEPT ![t].pc = "planning"]
     ELSE /\ turn' = [turn EXCEPT ![t].pc = "failed"]
          /\ UNCHANGED <<messages, state_messages>>
  /\ UNCHANGED <<pipelineVars, faults, httpVars, messagesTable>>

\* #getDocumentsContext and #planWithAllTools have returned; the chosen
\* branch runs up to its next await: the tool call, or AI.run of the stream
ChatPlan(t, out) ==
  LET tl == planWithAllTools(out).tool
      args == planWithAllTools(out).args
  IN /\ turn[t].pc = "planning"
     /\ IF tl = "none"
        THEN /\ turn' = [turn EXCEPT ![t].pc = "streaming", ![t].out = out]
             /\ UNCHANGED <<messages, state_messages>>
        ELSE /\ turn' = [turn EXCEPT ![t] =
                    Sent([@ EXCEPT !.pc = "tool", !.plan = tl, !.args = args,
                                   !.out = out],
                         <<Delta(PreText(tl)), Done>> \o
                         (IF tl = "search_documents"
                          THEN <<ToolEvent("started")>> ELSE <<>>))]
             /\ messages' = Append(messages, Msg("assistant", PreText(tl), t))
             /\ state_messages' = Append(state_messages, Msg("assistant", PreText(tl), t))
     /\ UNCHANGED <<pipelineVars, faults, httpVars, messagesTable>>

\* The catch block around a tool call: the apology is sent and saved
ToolCatch(tr, tl) ==
  Sent([tr EXCEPT !.pc = "done", !.result = [kind |-> "threw", sessionId |-> NoSession,
                                             entries |-> <<>>]],
       (IF tl = "search_documents" THEN <<ToolEvent("error")>> ELSE <<>>)
       \o <<Delta(Apology(tl)), Done>>)

\* searchDocuments as one call: the error text of its catch when a
\* collaborator call fails, "No relevant information found" without matches
\* or without rows, the formatted results otherwise
searchDocuments(matches, rows, docs, sessionId, fails) ==
  IF sessionId = NoSession
  THEN [kind |-> "no-session", sessionId |-> NoSession, entries |-> <<>>]
  ELSE IF fails
       THEN [kind |-> "error", sessionId |-> sessionId, entries |-> <<>>]
       ELSE IF Len(matches) = 0
            THEN [kind |-> "nothing", sessionId |-> sessionId, entries |-> <<>>]
            ELSE SearchOutcome(matches, rows, docs, sessionId)

\* The tool row saved after searchDocuments returned
ToolRow(result, t) ==
  Msg("tool", <<Str("tool_result"), Str("search_documents"), Str(result.kind)>>, t)

\* #executeSearchDocuments from the call of searchDocuments to AI.run of the
\* answer stream.  Null arguments throw at args.query, before
\* searchDocuments' own try block.
ChatSearch(t) ==
  /\ turn[t].pc = "tool"
  /\ turn[t].plan = "search_documents"
  /\ IF turn[t].args = 0
     THEN /\ turn' = [turn EXCEPT ![t] = ToolCatch(@, "search_documents")]
          /\ messages' = Append(messages, Msg("assistant", Apology("search_documents"), t))
          /\ state_messages' =
               Append(state_messages, Msg("assistant", Apology("search_documents"), t))
          /\ UNCHANGED faults
     ELSE \E fails \in BOOLEAN :
          \E matches \in VectorizeQuery(vectorIndex, agent.sessionId, DefaultTopK) :
            LET result == searchDocuments(matches, document_chunks, documents,
                                          agent.sessionId, fails)
            IN /\ fails => MayThrow
               /\ faults' = IF fails THEN faults + 1 ELSE faults
               /\ turn' = [turn EXCEPT ![t] =
                             Sent([@ EXCEPT !.pc = "streaming", !.result = result],
                                  <<ToolEvent("done")>>)]
               /\ messages' = Append(messages, ToolRow(result, t))
               /\ state_messages' = Append(state_messages, ToolRow(result, t))
  /\ UNCHANGED <<pipelineVars, httpVars, messagesTable>>

RECURSIVE Descending(_)
\* ORDER BY upload_timestamp DESC: document ids are handed out in upload order
Descending(S) ==
  IF S = {} THEN <<>>
  ELSE LET m == CHOOSE e \in S : \A f \in S : f <= e
       IN <<m>> \o Descending(S \ {m})

\* A listing whose query has no session predicate
listDocuments_AnySession(docs, sessionId, fails) ==
  IF sessionId = NoSession \/ fails
  THEN [kind |-> "list-failed", sessionId |-> sessionId, entries |-> <<>>]
  ELSE [kind |-> "list", sessionId |-> sessionId,
        entries |-> Descending({d \in DocIds : docs[d] # NoDoc})]

\* listDocuments: the session's documents; its catch answers a failure with
\* success false and no documents
listDocuments(docs, sessionId, fails) ==
  IF sessionId = NoSession \/ fails
  THEN [kind |-> "list-failed", sessionId |-> sessionId, entries |-> <<>>]
  ELSE [kind |-> "list", sessionId |-> sessionId,
        entries |-> Descending({d \in DocIds : docs[d] # NoDoc /\ docs[d].session_id = sessionId})]

NoDocumentsText == <<Str("You don't have any documents uploaded yet.")>>

\* The summary #executeListDocuments builds from the result
ListSummary(result) ==
  IF result.kind = "list" /\ Len(result.entries) > 0
  THEN <<[s |-> "You have document(s)", n |-> Len(result.entries)]>>
  ELSE NoDocumentsText

\* #executeListDocuments from the call of listDocuments to its end
ChatList(t) ==
  /\ turn[t].pc = "tool"
  /\ turn[t].plan = "list_documents"
  /\ \E fails \in BOOLEAN :
       LET result == listDocuments(documents, agent.sessionId, fails)
       IN /\ fails => MayThrow
          /\ faults' = IF fails THEN faults + 1 ELSE faults
          /\ turn' = [turn EXCEPT ![t] =
                        Sent([@ EXCEPT !.pc = "done", !.result = result,
                                       !.visible = {d \in DocIds :
                                           /\ documents[d] # NoDoc
                                           /\ documents[d].session_id = agent.sessionId}],
                             <<Delta(ListSummary(result)), Done>>)]
          /\ messages' = Append(messages, Msg("assistant", ListSummary(result), t))
          /\ state_messages' =
               Append(state_messages, Msg("assistant", ListSummary(result), t))
  /\ UNCHANGED <<pipelineVars, httpVars, messagesTable>>

\* The text deleteDocument returns
DeleteText(result) == <<Str("delete_document"), Str(result.kind)>>

\* #executeDeleteDocument from the call of deleteDocument to its end.  Null
\* arguments throw at args.documentId, before deleteDocument's own try block;
\* with {} the lookup is for an undefined id.  failAt: the collaborator call of deleteDocument that fails.
ChatDelete(t) ==
  /\ turn[t].pc = "tool"
  /\ turn[t].plan = "delete_document"
  /\ IF turn[t].args = 0
     THEN /\ turn' = [turn EXCEPT ![t] = ToolCatch(@, "delete_document")]
          /\ messages' = Append(messages, Msg("assistant", Apology("delete_document"), t))
          /\ state_messages' =
               Append(state_messages, Msg("assistant", Apology("delete_document"), t))
          /\ UNCHANGED <<faults, documents, document_chunks, vectorIndex, deleted>>
     ELSE \E failAt \in {"none", "lookup", "row"} :
            LET d == turn[t].args
                sessionId == agent.sessionId
                owned == /\ d \in DocIds
                         /\ documents[d] # NoDoc
                         /\ documents[d].session_id = sessionId
                ids == {r.id : r \in {x \in document_chunks :
                                        x.document_id = d /\ x.session_id = sessionId}}
                kind == IF failAt = "lookup" THEN "error"
                        ELSE IF ~owned THEN "not-found"
                        ELSE IF failAt = "row" THEN "error" ELSE "deleted"
                result == [kind |-> kind, sessionId |-> sessionId, entries |-> <<>>]
            IN /\ failAt # "none" => MayThrow
               /\ failAt = "row" => owned
               /\ faults' = IF failAt # "none" THEN faults + 1 ELSE faults
               /\ vectorIndex' = IF owned /\ failAt # "lookup"
                                 THEN DeleteByIds(vectorIndex, ids) ELSE vectorIndex
               /\ documents' = IF kind = "deleted"
                               THEN DeleteDocumentRow(documents, d, sessionId)
                               ELSE documents
               /\ document_chunks' = Cascade(documents', document_chunks)
               /\ deleted' = IF kind = "deleted" THEN deleted \cup {d} ELSE deleted
               /\ turn' = [turn EXCEPT ![t] =
                             Sent([@ EXCEPT !.pc = "done", !.result = result],
                                  <<Delta(DeleteText(result)), Done>>)]
               /\ messages' = Append(messages, Msg("assistant", DeleteText(result), t))
               /\ state_messages' =
                    Append(state_messages, Msg("assistant", DeleteText(result), t))
  /\ UNCHANGED <<last_row_id, bucket, up, wf, agent, tool, toolResult, now, chunkLog,
                 stepLog, cleanups, httpVars, messagesTable>>

\* A catch block that answers with the error mark whatever was streamed
StreamErrorText_Mark(full) == StreamErrorMark

\* The text #streamAssistant's catch block sends and saves
StreamErrorText(full) == IF full = <<>> THEN StreamErrorMark ELSE full

\* #streamAssistant: reader.read() yields a frame with one piece of text
StreamPiece(t) ==
  /\ turn[t].pc = "streaming"
  /\ Len(turn[t].streamed) < MaxPieces
  /\ LET piece == Piece(Len(turn[t].streamed) + 1)
     IN turn' = [turn EXCEPT ![t] =
                   Sent([@ EXCEPT !.full = Append(@, piece),
                                  !.streamed = Append(@, piece)],
                        <<Delta(<<piece>>)>>)]
  /\ UNCHANGED <<pipelineVars, faults, httpVars, messagesTable, messages, state_messages>>

\* #streamAssistant: the stream is done; finally sends done, then the text
\* is saved
StreamEnd(t) ==
  /\ turn[t].pc = "streaming"
  /\ turn' = [turn EXCEPT ![t] = Sent([@ EXCEPT !.pc = "done", !.stream = "ended"], <<Done>>)]
  /\ messages' = Append(messages, Msg("assistant", turn[t].full, t))
  /\ state_messages' = Append(state_messages, Msg("assistant", turn[t].full, t))
  /\ UNCHANGED <<pipelineVars, faults, httpVars, messagesTable>>

\* #streamAssistant: AI.run or reader.read() throws; the catch block sends
\* the text so far (or the error mark), finally sends done, then it is saved
StreamFails(t) ==
  /\ turn[t].pc = "streaming"
  /\ MayThrow
  /\ faults' = faults + 1
  /\ LET full == StreamErrorText(turn[t].full)
     IN /\ turn' = [turn EXCEPT ![t] =
                      Sent([@ EXCEPT !.pc = "done", !.stream = "failed", !.full = full],
                           <<Delta(full), Done>>)]
        /\ messages' = Append(messages, Msg("assistant", full, t))
        /\ state_messages' = Append(state_messages, Msg("assistant", full, t))
  /\ UNCHANGED <<pipelineVars, httpVars, messagesTable>>

\* #streamAssistant: AI.run returns no stream; the text is sent with done and
\* saved, and the return runs the finally block, which sends done again
StreamNotAStream(t) ==
  /\ turn[t].pc = "streaming"
  /\ turn[t].streamed = <<>>
  /\ turn' = [turn EXCEPT ![t] =
                Sent([@ EXCEPT !.pc = "done", !.stream = "not-a-stream",
                               !.full = NoResponseText],
                     <<Delta(NoResponseText), Done, Done>>)]
  /\ messages' = Append(messages, Msg("assistant", NoResponseText, t))
  /\ state_messages' = Append(state_messages, Msg("assistant", NoResponseText, t))
  /\ UNCHANGED <<pipelineVars, faults, httpVars, messagesTable>>

Chat(t, outs) ==
  \/ ChatMessage(t)
  \/ \E out \in outs : ChatPlan(t, out)
  \/ ChatSearch(t)
  \/ ChatList(t)
  \/ ChatDelete(t)
  \/ StreamPiece(t)
  \/ StreamEnd(t)
  \/ StreamFails(t)
  \/ StreamNotAStream(t)

\* The chat agent of one connected client: uploads (without their ingestion),
\* connections and chat messages, whose handlers interleave at their awaits
NextChat ==
  \/ \E d \in OneDoc : Upload(d, {chunkSize \div 2})
  \/ \E header \in Sessions : OnConnect(header)
  \/ \E t \in Turns : Chat(t, SingleCallOutputs)

SpecChat == InitChat /\ [][NextChat]_vars


\* ------------------------------------------------------ claims C12..C20
\* The chat messages whose handler has started and has not ended
InFlight == {t \in Turns : turn[t].pc \in {"planning", "tool", "streaming"}}
\* The messages turn t has appended to the table
MessagesOf(t) == SelectSeq(messages, LAMBDA m : m.turn = t)
\* The frames of a kind turn t has sent
FramesOf(t, type) == SelectSeq(turn[t].frames, LAMBDA f : f.type = type)

\* C12: no two chat turns of the session execute concurrently: while an
\* earlier turn is still in flight (awaiting the planner, a tool or the answer
\* stream), a later turn has appended nothing to the history.
C12_TurnsSerialized ==
  \A t \in Turns, u \in Turns :
    t < u /\ t \in InFlight => Len(MessagesOf(u)) = 0


\* The last element of a non-empty sequence
Last(s) == s[Len(s)]

\* C13: when the answer stream fails after producing partial text P, the turn
\* still sends the terminal done frame and persists exactly P as the
\* assistant's message.
C13_PartialTextKept ==
  \A t \in Turns :
    turn[t].stream = "failed" /\ turn[t].streamed # <<>> =>
      /\ Last(turn[t].frames) = Done
      /\ Last(MessagesOf(t)) = Msg("assistant", turn[t].streamed, t)
      /\ \E i \in DOMAIN state_messages :
           state_messages[i] = Msg("assistant", turn[t].streamed, t)

\* An answer stream failed after one piece or more, and the turn has ended
C13_Witness ==
  \E t \in Turns :
    /\ turn[t].stream = "failed"
    /\ turn[t].pc = "done"
    /\ Len(turn[t].streamed) >= 1


\* The tool of turn t failed: a collaborator call inside it threw (the tool
\* caught it), or the tool itself threw
ToolFailed(t) == turn[t].result.kind \in {"error", "list-failed", "threw"}

\* C14: when retrieval, listing or deletion fails during a chat turn, the
\* turn sends the apology as a delta followed by done and persists it as the
\* assistant's message.
C14_ToolFailureApologised ==
  \A t \in Turns :
    turn[t].pc = "done" /\ ToolFailed(t) =>
      /\ \E i \in DOMAIN turn[t].frames :
           /\ turn[t].frames[i] = Delta(Apology(turn[t].plan))
           /\ i < Len(turn[t].frames)
           /\ turn[t].frames[i + 1] = Done
      /\ Last(MessagesOf(t)) = Msg("assistant", Apology(turn[t].plan), t)


\* C15: a vector match whose id has no row-store segment in the session (an
\* orphan) is omitted from the search result: every entry search returns
\* carries the text and filename of an existing row-store segment.
C15_OrphansOmitted ==
  toolResult.kind = "results" =>
    \A e \in Entries :
      /\ e.found
      /\ \E r \in document_chunks :
           /\ r.id = e.match
           /\ r.session_id = toolResult.sessionId
           /\ e.text = r.text
           /\ e.filename = documents[r.document_id].filename


\* C16: a search that found nothing is told apart from a search that failed:
\* the orchestrator reports a failed search, and only a failed search, as an
\* error (tool event "error"), and a search that found nothing as done.
C16_NothingFoundIsNotFailure ==
  \A t \in Turns :
    turn[t].plan = "search_documents" /\ turn[t].result # NoResult =>
      /\ ToolFailed(t) <=> ToolEvent("error") \in SeqRange(turn[t].frames)
      /\ turn[t].result.kind = "nothing" => ToolEvent("done") \in SeqRange(turn[t].frames)


\* C20: when the planner selects the list capability in a session with zero
\* documents, the response text states that no documents exist, and the
\* search capability is not invoked in that turn.
C20_ListWithoutDocuments ==
  \A t \in Turns :
    turn[t].plan = "list_documents" /\ turn[t].pc = "done" /\ turn[t].visible = {} =>
      /\ Len(FramesOf(t, "delta")) = 2
      /\ Last(FramesOf(t, "delta")) = Delta(NoDocumentsText)
      /\ Last(MessagesOf(t)) = Msg("assistant", NoDocumentsText, t)
      /\ Len(FramesOf(t, "tool")) = 0
      /\ \A i \in DOMAIN MessagesOf(t) : MessagesOf(t)[i].role # "tool"
      /\ turn[t].result.kind \in {"list", "list-failed"}

\* A listing in a session without documents, while another session has one
C20_Witness ==
  \E t \in Turns :
    /\ turn[t].plan = "list_documents"
    /\ turn[t].pc = "done"
    /\ turn[t].visible = {}
    /\ turn[t].result.kind = "list"
    /\ \E d \in DocIds : documents[d] # NoDoc


\* -------------------------------------------------------------- http
\* POST /api/upload: the form of the request (with a file, without one, or
\* a body request.formData() cannot parse), the file's type and size, and
\* the x-session-id header
maxSize == 10 * 1024 * 1024
AllowedTypes == {"application/pdf",
                 "application/vnd.openxmlformats-officedocument.wordprocessingml.document"}
FileTypes == AllowedTypes \cup {"text/plain"}
FileSizes == {1, maxSize, maxSize + 1}
UploadRequests ==
  [kind : {"upload"}, form : {"file", "no-file", "malformed"}, type : FileTypes,
   size : FileSizes, sessionId : Sessions, filename : FileNames]

BadRequest(error) == [status |-> 400, error |-> error]
NotFound == [status |-> 404, error |-> "Document not found"]
ServerError == [status |-> 500, error |-> "thrown"]
\* No response yet: the handler is past validation and goes on
Pending == NoResponse

\* Validation that lets a file of any size pass
UploadValidate_NoSizeCheck(req) ==
  IF req.form = "malformed" THEN ServerError
  ELSE IF req.form = "no-file" THEN BadRequest("No file provided")
  ELSE IF req.type \notin AllowedTypes THEN BadRequest("Invalid file type")
  ELSE Pending

\* handleDocumentUpload up to the generation of the document id: the
\* response that ends the handler, or Pending when the request passes
UploadValidate(req) ==
  IF req.form = "malformed" THEN ServerError
  ELSE IF req.form = "no-file" THEN BadRequest("No file provided")
  ELSE IF req.type \notin AllowedTypes THEN BadRequest("Invalid file type")
  ELSE IF req.size > maxSize THEN BadRequest("File too large")
  ELSE Pending

\* POST /api/upload: handleDocumentUpload up to DOCUMENTS_BUCKET.put.  The
\* text the file holds is of one length here.
UploadRequest(d, req) ==
  /\ up[d] = "none"
  /\ d = FreshDocId
  /\ request' = req
  /\ response' = UploadValidate(req)
  /\ IF UploadValidate(req) = Pending
     THEN /\ bucket' = [bucket EXCEPT ![d] =
                          [present |-> TRUE, sessionId |-> req.sessionId,
                           filename |-> req.filename,
                           text |-> Text(d, 0, chunkSize \div 2)]]
          /\ up' = [up EXCEPT ![d] = "put"]
     ELSE UNCHANGED <<bucket, up>>
  /\ UNCHANGED <<chatVars, documents, document_chunks, last_row_id, vectorIndex, wf, agent,
                 tool, toolResult, now, faults, chunkLog, stepLog, deleted, cleanups>>

\* A status lookup by document id alone
getDocumentStatus_ById(docs, documentId, sessionId) ==
  IF docs[documentId] = NoDoc
  THEN NotFound
  ELSE [status |-> 200,
        document |-> [id |-> documentId, filename |-> docs[documentId].filename,
                      status |-> docs[documentId].processing_status,
                      totalChunks |-> docs[documentId].total_chunks,
                      progress |-> docs[documentId].metadata]]

\* getDocumentStatus: SELECT ... FROM documents WHERE id = ? AND session_id = ?
getDocumentStatus(docs, documentId, sessionId) ==
  IF docs[documentId] = NoDoc \/ docs[documentId].session_id # sessionId
  THEN NotFound
  ELSE [status |-> 200,
        document |-> [id |-> documentId, filename |-> docs[documentId].filename,
                      status |-> docs[documentId].processing_status,
                      totalChunks |-> docs[documentId].total_chunks,
                      progress |-> docs[documentId].metadata]]

\* GET /api/documents/{id} with an x-session-id header ("default" without
\* one).  exists and owner are history: the row as it was when the request
\* was answered.
GetDocumentStatus(d, sessionId) ==
  /\ request' = [kind |-> "status", id |-> d, sessionId |-> sessionId,
                 exists |-> documents[d] # NoDoc,
                 owner |-> IF documents[d] # NoDoc THEN documents[d].session_id
                           ELSE NoSession]
  /\ \E fails \in BOOLEAN :
       /\ fails => MayThrow
       /\ faults' = IF fails THEN faults + 1 ELSE faults
       /\ response' = IF fails THEN ServerError
                      ELSE getDocumentStatus(documents, d, sessionId)
  /\ UNCHANGED <<chatVars, documents, document_chunks, last_row_id, vectorIndex, bucket, up,
                 wf, agent, tool, toolResult, now, chunkLog, stepLog, deleted, cleanups>>

\* The worker's two HTTP endpoints and the ingestion of the first document,
\* its failures included
NextHttp ==
  \/ \E d \in DocIds : \E req \in UploadRequests : UploadRequest(d, req)
  \/ \E d \in DocIds : \/ UploadCreateRecord(d)
                       \/ UploadTrigger(d)
                       \/ UploadThrows(d)
  \/ \E d \in OneDoc : \/ Workflow(d)
                       \/ StepCallThrows(d)
                       \/ StoreCatchThrows(d)
  \/ \E d \in DocIds, sessionId \in Sessions : GetDocumentStatus(d, sessionId)

SpecHttp == Init /\ [][NextHttp]_vars

C18_WrongSessionIsNotFound ==
  request.kind = "status" /\ response.status # 500 =>
    IF request.exists /\ request.owner = request.sessionId
    THEN response.status = 200
    ELSE /\ response = NotFound
         /\ DOMAIN response = {"status", "error"}

\* A status request for an existing document of another session got 404
C18_Witness ==
  /\ request.kind = "status"
  /\ request.exists
  /\ request.owner # request.sessionId
  /\ response = NotFound


\* ------------------------------------------------------ segmentation
\* The lengths of the texts segmented on their own: every multiple of
\* chunkOverlap up to the bound (2000 = 10 * chunkOverlap among them)
SegmentLens == {k * chunkOverlap : k \in 0..MaxLenUnits}

\* One document uploaded and run through extraction and chunkText
NextSegment ==
  \E d \in OneDoc :
    \/ Upload(d, SegmentLens)
    \/ StepProgress(d)
    \/ FetchAndExtract(d)
    \/ ChunkTextStep(d)

SpecSegment == Init /\ [][NextSegment]_vars

\* The chunk-text step of document d has returned its segments
Segmented(d) == wf[d].pc = "generate-embeddings"

Dangling(d) == {e \in VectorsOf(d) : \A r \in document_chunks : r.id # e.id}

\* C21: the deletion of a document removes its vector entries before its
\* rows: at every point of the deletion, its last statement included, every
\* remaining vector entry of the document still has its row-store segment.
C21_NoDanglingVectorInDeletion ==
  [][\A d \in DocIds :
       (BeingDeleted(d) \/ d \in deleted' \ deleted) /\ Dangling(d) = {}
         => Dangling(d)' = {}]_vars


\* C22: persist writes every segment to the row store before the vector
\* upsert, the vector entry built from vectors[i] is keyed by the row id the
\* row store assigned to segments[i], and all vector entries of the call are
\* upserted in one batch: a step that adds vector entries adds, for one
\* document, one entry per segment, each keyed by the row written for it.
C22_RowsThenOneBatch ==
  [][vectorIndex' \ vectorIndex # {} =>
       \E d \in DocIds :
         LET w == wf[d]
             added == vectorIndex' \ vectorIndex
         IN /\ w.pc = "store-chunks"
            /\ w.i = Len(w.chunks)
            /\ Len(w.vv) = Len(w.chunks)
            /\ added = SeqRange(w.vv)
            /\ Cardinality(added) = Len(w.chunks)
            /\ \A k \in 1..Len(w.chunks) :
                 /\ w.vv[k].id \in DOMAIN chunkLog
                 /\ chunkLog[w.vv[k].id].id = w.vv[k].id
                 /\ chunkLog[w.vv[k].id].document_id = d
                 /\ chunkLog[w.vv[k].id].chunk_index = w.chunks[k].index
                 /\ chunkLog[w.vv[k].id].text = w.chunks[k].text
                 /\ w.vv[k].values = w.embeddings[k]]_vars

\* The vectors of a document of two segments or more have been upserted
C22_Witness ==
  \E d \in DocIds :
    /\ wf[d].pc = "store-chunks"
    /\ wf[d].at = "status"
    /\ Len(wf[d].chunks) >= 2
    /\ Cardinality(VectorsOf(d)) >= 2


\* persist has failed for document d after it committed one row or more and
\* before its vector upsert completed: storeDocumentChunks is in its catch
\* block and some vector it built is not in the index
PersistFailedPartway(d) ==
  /\ wf[d].pc = "store-chunks"
  /\ wf[d].at = "storeCatch"
  /\ wf[d].i >= 1
  /\ \E k \in 1..Len(wf[d].vv) : wf[d].vv[k] \notin vectorIndex

\* C23: if persist fails after one or more segments were committed to the
\* row store but before the vector upsert completed, the document is never
\* subsequently promoted to ready.
C23_FailedPersistNeverReady ==
  \A d \in OneDoc : [](PersistFailedPartway(d) => [](Status(d) # "ready"))


\* ---------------------------------------------------------- liveness
\* run's catch block when its own updateDocumentStatus throws: the error
\* leaves run in place of the step's, and the workflow instance ends errored
\* with the document's row as the failed step left it.  (It happens once
\* in a workflow, so it is not counted against the fault budget.)
RunCatchThrows(d) ==
  /\ wf[d].pc = "catch"
  /\ wf' = [wf EXCEPT ![d].pc = "errored"]
  /\ UNCHANGED <<httpVars, chatVars, documents, document_chunks, last_row_id, vectorIndex,
                 bucket, up, agent, tool, toolResult, now, faults, chunkLog, stepLog,
                 deleted, cleanups>>

\* One upload and its ingestion, with collaborator failures in the upload,
\* in every step and in both catch blocks
NextLive ==
  \E d \in OneDoc :
    \/ Upload(d, TextLens)
    \/ Workflow(d)
    \/ Throws(d)
    \/ RunCatchThrows(d)

\* The workflow engine goes on running a workflow it has started: a step that
\* can run does run, and every call returns or fails
SpecLive == Init /\ [][NextLive]_vars /\ \A d \in OneDoc : WF_vars(Workflow(d))

\* The ingestion of document d has ended
Terminated(d) == wf[d].pc \in {"complete", "errored"}

\* C24: every ingestion started for an uploaded document eventually
\* terminates with the document in status ready or error.
C24_IngestionTerminates ==
  \A d \in OneDoc :
    wf[d].pc # "none" ~> (Terminated(d) /\ Status(d) \in {"ready", "error"})


\* C25: whenever an observer polling the document reads status ready, the
\* progress payload it reads is the final one (step complete, progress 100).
C25_ReadyMeansComplete ==
  request.kind = "status" /\ response.status = 200 =>
    (response.document.status = "ready" =>
       /\ response.document.progress.step = "complete"
       /\ response.document.progress.progress = 100)


\* ------------------------------------------------------ host failure
\* The workflow after its host failed and the engine invoked run again from
\* a state that forgot every completion record: all steps run anew
HostRestart_FromBeginning(w) ==
  [w EXCEPT !.pc = Steps[1], !.at = "start", !.i = 0, !.vv = <<>>,
            !.extracted = EmptyText, !.chunks = <<>>, !.embeddings = <<>>]

\* The workflow after its host failed and the engine invoked run again: each
\* step.do of a step with a completion record returns the recorded output
\* without running its body, so run is back at the step that was under way,
\* at the start of its body, with extracted, chunks and embeddings as the
\* completed steps returned them.  What the step under way had in memory
\* (the loop index and the vectors built so far) is lost.
HostRestart(w) == [w EXCEPT !.at = "start", !.i = 0, !.vv = <<>>]

\* The host of a running workflow fails (counted against the fault budget)
HostFailure(d) ==
  /\ wf[d].pc \in StepNames
  /\ MayThrow
  /\ faults' = faults + 1
  /\ wf' = [wf EXCEPT ![d] = HostRestart(wf[d])]
  /\ UNCHANGED <<httpVars, chatVars, documents, document_chunks, last_row_id, vectorIndex,
                 bucket, up, agent, tool, toolResult, now, chunkLog, stepLog, deleted,
                 cleanups>>

\* One upload and its ingestion, with collaborator failures and host failures
NextRestart ==
  \E d \in OneDoc :
    \/ Upload(d, TextLens)
    \/ Workflow(d)
    \/ Throws(d)
    \/ HostFailure(d)

SpecRestart == Init /\ [][NextRestart]_vars

WorkflowCreate(d, fileType) ==
  /\ up[d] = "recorded"
  /\ wf' = [wf EXCEPT ![d] =
              [NoWorkflow EXCEPT !.pc = Steps[1], !.attempt = 1,
                                 !.sessionId = bucket[d].sessionId,
                                 !.filename = bucket[d].filename,
                                 !.fileType = fileType]]
  /\ up' = [up EXCEPT ![d] = "ok"]
  /\ UNCHANGED <<httpVars, chatVars, documents, document_chunks, last_row_id, vectorIndex,
                 bucket, agent, tool, toolResult, now, faults, chunkLog, stepLog, deleted,
                 cleanups>>

\* One document ingested by a workflow started with any file type
NextTypes ==
  \E d \in OneDoc :
    \/ Upload(d, TextLens)
    \/ \E fileType \in MimeTypes : WorkflowCreate(d, fileType)
    \/ Workflow(d)
    \/ Throws(d)

SpecTypes == Init /\ [][NextTypes]_vars

NextPlan ==
  \/ \E d \in OneDoc : Upload(d, {chunkSize \div 2})
  \/ \E header \in Sessions : OnConnect(header)
  \/ Chat(1, PlannerOutputs)

SpecPlan == InitChat /\ [][NextPlan]_vars

\* The capabilities turn t has started: each #execute* method begins by
\* sending its own opening text as a delta
Started(t) ==
  SelectSeq(turn[t].frames,
            LAMBDA f : \E tl \in ToolNames : f = Delta(PreText(tl)))

\* C28: in one chat turn at most one capability among search, list and delete
\* is executed, whatever the planner returns: with several tool calls in one
\* response it is the capability of the first call, and the others are dropped
C28_AtMostOneCapability ==
  \A t \in Turns :
    /\ Len(Started(t)) <= 1
    /\ Len(Started(t)) = 1 =>
         /\ turn[t].out.kind = "object"
         /\ Len(turn[t].out.tool_calls) >= 1
         /\ Started(t)[1] = Delta(PreText(turn[t].out.tool_calls[1].name))
    /\ Len(SelectSeq(MessagesOf(t), LAMBDA m : m.role = "tool")) <= 1

C28_Witness ==
  \E t \in Turns :
    /\ turn[t].pc = "done"
    /\ turn[t].out.kind = "object"
    /\ Len(turn[t].out.tool_calls) = 2
    /\ turn[t].out.tool_calls[1].name = "list_documents"
    /\ turn[t].out.tool_calls[2].name = "delete_document"
    /\ turn[t].out.tool_calls[2].arguments \in OneDoc
    /\ Len(Started(t)) = 1
    /\ documents[turn[t].out.tool_calls[2].arguments] # NoDoc


\* The planner outputs the claim speaks of: the planning call failed, the
\* output is not a tool-call object, its first call names no known tool, or
\* the call of a tool with a required parameter carries no argument object
Rejected(out) ==
  \/ out.kind \in {"threw", "not-object"}
  \/ /\ out.kind = "object"
     /\ Len(out.tool_calls) >= 1
     /\ LET call == out.tool_calls[1]
        IN \/ call.name \notin ToolNames
           \/ /\ call.name \in {"search_documents", "delete_document"}
              /\ call.arguments \notin OneDoc

\* C29: when the planner's output names a tool outside search_documents,
\* list_documents and delete_document, is malformed, or the planning call
\* fails, no capability is dispatched and the turn proceeds as a plain reply
C29_InvalidPlanIsPlainReply ==
  \A t \in Turns :
    turn[t].out.kind # "none" /\ Rejected(turn[t].out) =>
      /\ turn[t].plan = "none"
      /\ Started(t) = <<>>
      /\ turn[t].pc \in {"streaming", "done"}


\* The positions in turn t's messages that hold a message of a role
PositionsOf(t, role) == {k \in 1..Len(MessagesOf(t)) : MessagesOf(t)[k].role = role}

\* C30: in every chat turn that executes a capability (search, list or
\* delete), the capability's structured result is appended to the history as
\* one message with role tool, after the turn's user message and before the
\* final assistant answer
C30_ToolMessagePerCapability ==
  \A t \in Turns :
    /\ turn[t].pc = "done"
    /\ turn[t].plan \in ToolNames
    /\ turn[t].result.kind \notin {"none", "threw"}   \* the capability ran
    => /\ Cardinality(PositionsOf(t, "tool")) = 1
       /\ \A k \in PositionsOf(t, "tool") :
            /\ \E u \in PositionsOf(t, "user") : u < k
            /\ k < Len(MessagesOf(t))
            /\ Last(MessagesOf(t)).role = "assistant"


\* ------------------------------------------------------ embedding batches
\* The segments chunkText gives a text of (n - 1) * (chunkSize - chunkOverlap)
\* + chunkSize characters
SegmentsOf(d, n) ==
  [k \in 1..n |->
     [text |-> Text(d, (k - 1) * (chunkSize - chunkOverlap),
                    (k - 1) * (chunkSize - chunkOverlap) + chunkSize),
      index |-> k - 1]]

\* A document of up to MaxBatches full batches of segments and a partial one,
\* its workflow about to run the generate-embeddings step
InitEmbed ==
  \E n \in 0..(MaxBatches * MAX_BATCH_SIZE + 5) :
  \E sessionId \in Sessions, filename \in FileNames :
    LET d == CHOOSE e \in OneDoc : TRUE
        text == IF n = 0 THEN Text(d, 0, 0)
                ELSE Text(d, 0, SegmentsOf(d, n)[n].text.to)
    IN /\ documents = [e \in DocIds |-> IF e = d
                          THEN updateProgress([f \in DocIds |-> DocumentRecord(sessionId, filename)],
                                              d, sessionId, ProgressOf("chunk-text"))[d]
                          ELSE NoDoc]
       /\ bucket = [e \in DocIds |-> IF e = d
                       THEN [present |-> TRUE, sessionId |-> sessionId,
                             filename |-> filename, text |-> text]
                       ELSE NoObject]
       /\ up = [e \in DocIds |-> IF e = d THEN "ok" ELSE "none"]
       /\ wf = [e \in DocIds |-> IF e = d
                   THEN [NoWorkflow EXCEPT !.pc = "generate-embeddings", !.attempt = 1,
                                          !.sessionId = sessionId, !.filename = filename,
                                          !.extracted = text,
                                          !.chunks = SegmentsOf(d, n)]
                   ELSE NoWorkflow]
       /\ stepLog = [e \in DocIds |-> IF e = d THEN {"fetch-and-extract", "chunk-text"} ELSE {}]
       /\ document_chunks = {}
       /\ last_row_id = 0
       /\ vectorIndex = {}
       /\ agent = [sessionId |-> NoSession, lastActivity |-> 0,
                   sql_sessions |-> {}, sql_documents |-> {},
                   sql_conversation_history |-> <<>>]
       /\ tool = NoTool
       /\ toolResult = NoResult
       /\ now = 0
       /\ faults = 0
       /\ chunkLog = <<>>
       /\ deleted = {}
       /\ cleanups = 0
       /\ request = NoRequest
       /\ response = NoResponse
       /\ messages = <<>>
       /\ state_messages = <<>>
       /\ turn = [t \in Turns |-> NoTurn]
       /\ messagesTable = FALSE

\* The generate-embeddings step of the document
NextEmbed ==
  \E d \in OneDoc :
    \/ StepProgress(d)
    \/ GenerateEmbeddingsStep(d)

SpecEmbed == InitEmbed /\ [][NextEmbed]_vars

\* C31: for every list of N texts generateEmbeddings returns exactly N
\* vectors, the i-th being the embedding of the i-th text (batches are
\* consecutive slices of at most MAX_BATCH_SIZE texts, concatenated in input
\* order)
C31_OneVectorPerTextInOrder ==
  \A d \in OneDoc :
    wf[d].pc = "store-chunks" =>
      /\ Len(wf[d].embeddings) = Len(wf[d].chunks)
      /\ \A k \in 1..Len(wf[d].chunks) : wf[d].embeddings[k].of = wf[d].chunks[k].text
      /\ LET batches == splitIntoBatches(wf[d].chunks, MAX_BATCH_SIZE)
         IN \A b \in 1..Len(batches) :
              /\ Len(batches[b]) <= MAX_BATCH_SIZE
              /\ \A k \in 1..Len(batches[b]) :
                   batches[b][k] = wf[d].chunks[(b - 1) * MAX_BATCH_SIZE + k]

\* A list of more than two full batches has been embedded
C31_Witness ==
  \E d \in OneDoc :
    /\ wf[d].pc = "store-chunks"
    /\ Len(wf[d].chunks) > 2 * MAX_BATCH_SIZE
    /\ Len(wf[d].chunks) % MAX_BATCH_SIZE # 0


\* ------------------------------------------------------ the search query
\* truncateText's default maxChars: the embedding model's input limit
maxChars == 2000
\* truncateText (no code calls it)
truncateText(text) ==
  IF TextLength(text) <= maxChars THEN text ELSE Substring0(text, maxChars)

\* The lengths of the queries a search is asked with
QueryLens == {k * (maxChars \div 10) : k \in 0..MaxQueryUnits}

\* searchDocuments from its entry to AI.run of the embedding model on
\* [args.query]
SearchEmbed(len) ==
  /\ tool.op = "none"
  /\ IF agent.sessionId = NoSession
     THEN /\ toolResult' = [kind |-> "no-session", sessionId |-> NoSession, entries |-> <<>>]
          /\ tool' = NoTool
     ELSE LET query == Text(0, 0, len)
          IN /\ tool' = [NoTool EXCEPT !.op = "search", !.pc = "embed",
                                       !.sessionId = agent.sessionId,
                                       !.query = query,
                                       !.embedded = AiRunEmbedding(<<query>>)[1].of]
             /\ toolResult' = NoResult
  /\ UNCHANGED <<httpVars, chatVars, documents, document_chunks, last_row_id, vectorIndex, bucket, up,
                 wf, agent, now, faults, chunkLog, stepLog, deleted, cleanups>>

\* searchDocuments: VECTOR_INDEX.query with the query's embedding, and the
\* return when nothing matches
SearchVectorize(topK) ==
  /\ tool.op = "search"
  /\ tool.pc = "embed"
  /\ \E matches \in VectorizeQuery(vectorIndex, tool.sessionId, topK) :
       IF Len(matches) = 0
       THEN /\ toolResult' = [kind |-> "nothing", sessionId |-> tool.sessionId,
                              entries |-> <<>>]
            /\ tool' = NoTool
       ELSE /\ tool' = [tool EXCEPT !.pc = "join", !.topK = topK, !.found = matches]
            /\ toolResult' = NoResult
  /\ UNCHANGED <<httpVars, chatVars, documents, document_chunks, last_row_id, vectorIndex, bucket, up,
                 wf, agent, now, faults, chunkLog, stepLog, deleted, cleanups>>

\* Searches with queries of every length in a session without documents
NextQuery ==
  \/ \E header \in Sessions : OnConnect(header)
  \/ \E len \in QueryLens : SearchEmbed(len)
  \/ \E topK \in TopKs : SearchVectorize(topK)

SpecQuery == Init /\ [][NextQuery]_vars

\* C32: a text longer than the embedding model's input-length limit is
\* truncated to the same fixed length before it is embedded, and is not
\* dropped: the model is given the first maxChars characters of the text
C32_LongTextTruncated ==
  tool.op = "search" /\ tool.pc = "embed" =>
    /\ tool.embedded = truncateText(tool.query)
    /\ TextLength(tool.embedded) <= maxChars


\* ------------------------------------------------------ the history
\* A reset that clears the table and leaves state.messages
ChatReset_TableOnly ==
  /\ agent.sessionId # NoSession
  /\ messagesTable
  /\ messages' = <<>>
  /\ UNCHANGED <<pipelineVars, faults, httpVars, messagesTable, turn, state_messages>>

\* onMessage with {type: "reset"}: DELETE FROM messages, state.messages = [],
\* frame cleared.  The DELETE throws when the table is missing and the handler
\* ends there.
ChatReset ==
  /\ agent.sessionId # NoSession
  /\ messagesTable
  /\ messages' = <<>>
  /\ state_messages' = <<>>
  /\ UNCHANGED <<pipelineVars, faults, httpVars, messagesTable, turn>>

\* The chat agent alone: connections of either session, chat messages and
\* resets
NextHistory ==
  \/ \E header \in Sessions : OnConnect(header)
  \/ \E t \in Turns : Chat(t, SingleCallOutputs)
  \/ ChatReset

SpecHistory == InitChat /\ [][NextHistory]_vars

\* list s is the beginning of list r
IsPrefix(s, r) == Len(s) <= Len(r) /\ SubSeq(r, 1, Len(s)) = s

\* C33: the conversation history is append-only: every operation other than
\* an explicit reset or a session expiry (chat turn, tool result, assistant
\* save, reconnect) leaves the existing messages unchanged and in order and
\* adds only at the end, in the messages table and in state.messages alike
C33_HistoryAppendOnly ==
  [][~ChatReset /\ cleanups' = cleanups =>
       /\ IsPrefix(messages, messages')
       /\ IsPrefix(state_messages, state_messages')]_vars

\* Clients of both sessions have connected, a turn has ended and the history
\* holds three messages or more
C33_Witness ==
  /\ Len(state_messages) >= 3
  /\ \E t \in Turns : turn[t].pc = "done"
  /\ agent.sql_sessions = Sessions
  /\ state_messages = messages


\* C34: a session is expired (cleanupSession runs for it) exactly when it is
\* contacted more than 24 hours after its last activity: never within the 24
\* hours, and always on the first contact after them, before the contact is
\* served
C34_ExpiredExactlyAfterWindow ==
  [][(\E header \in Sessions \cup {NoSession} : OnConnect(header)) =>
       (cleanups' # cleanups <=>
          /\ agent.sessionId # NoSession
          /\ now - agent.lastActivity > SESSION_DURATION)]_vars


\* C35: when a document is deleted while its persist step is running, then
\* once the deletion and the ingestion have both finished no vector entry and
\* no row-store segment of the deleted document remains
C35_DeletedDuringPersistLeavesNothing ==
  \A d \in DocIds :
    /\ d \in deleted
    /\ ~BeingDeleted(d)
    /\ wf[d].pc \in {"complete", "errored"}
    => /\ VectorsOf(d) = {}
       /\ RowsOf(d) = {}


\* ------------------------------------------------------ the browser client
\* The session ids getSessionId gives a browser: `session_...`, never the
\* fallback "default"
ClientSessions == Sessions \ {"default"}

\* RAGAgentClient.connect: new WebSocket(`/agents/chat/${sessionId}`).  The
\* session id is in the URL path only; the request the agent receives carries
\* no x-session-id header.
connect(sessionId) == NoSession

\* The client of session sessionId opens its chat connection
ClientConnect(sessionId) == OnConnect(connect(sessionId))

\* The client of session sessionId uploads a file: POST /api/upload with the
\* header x-session-id: sessionId
ClientUpload(d, sessionId) ==
  \/ \E filename \in FileNames : UploadPut(d, sessionId, filename, chunkSize \div 2)
  \/ UploadCreateRecord(d)
  \/ UploadTrigger(d)

\* One browser client: it connects, uploads and chats
NextClient ==
  \/ \E sessionId \in ClientSessions : ClientConnect(sessionId)
  \/ \E sessionId \in ClientSessions, d \in DocIds : ClientUpload(d, sessionId)
  \/ Chat(1, SingleCallOutputs)

SpecClient == InitChat /\ [][NextClient]_vars

\* C36: for a client with session id S the chat agent serving it uses S as
\* its session id, so a listing shows exactly the documents uploaded with
\* session id S
C36_AgentUsesClientSession ==
  /\ agent.sessionId \in ClientSessions \cup {NoSession}
  /\ \A t \in Turns :
       turn[t].pc = "done" /\ turn[t].result.kind = "list" =>
         turn[t].visible = {d \in DocIds : /\ documents[d] # NoDoc
                                           /\ documents[d].session_id \in ClientSessions}


\* C37: after every completed operation of a session (user turn, tool
\* result, assistant save, reset, reconnect) the in-memory message list
\* state.messages equals the rows of the messages table in timestamp order
\* (the order of their insertion: Date.now() never goes back)
C37_StateEqualsTable == state_messages = messages

\* The history after a reset that came in the middle of a turn and a later
\* connection of the other session: it begins with an assistant message
C37_Witness ==
  /\ messagesTable
  /\ Len(messages) >= 2
  /\ messages[1].role = "assistant"
  /\ agent.sql_sessions = Sessions
  /\ \E t \in Turns : turn[t].pc = "done"


RECURSIVE DeltaText(_)
\* What a client that appends every delta to the answer shows (client.onDelta)
DeltaText(frames) ==
  IF Len(frames) = 0 THEN <<>>
  ELSE (IF Head(frames).type = "delta" THEN Head(frames).text ELSE <<>>)
         \o DeltaText(Tail(frames))

\* C38: for every streamed answer the concatenation of the delta frames sent
\* for it up to its done frame equals the content persisted as that
\* assistant message, on the success path and the stream-failure path alike.
\* (Stated for the turns without a tool, whose only deltas are the answer's.)
C38_DeltasEqualPersisted ==
  \A t \in Turns :
    turn[t].pc = "done" /\ turn[t].plan = "none" /\ turn[t].stream # "none" =>
      /\ Last(MessagesOf(t)).role = "assistant"
      /\ DeltaText(turn[t].frames) = Last(MessagesOf(t)).content


\* C39: when an upload request is answered with a failure, no document record
\* for it remains in the row store; in particular no document is left in
\* status processing without an ingestion workflow started for it
C39_FailedUploadLeavesNoRecord ==
  \A d \in DocIds : up[d] = "failed" => documents[d] = NoDoc


\* ------------------------------------------------------ the tool events
\* #executeSearchDocuments: searchDocuments has returned and the done event is
\* sent, and the INSERT of the tool row throws.  The try block reaches to the
\* end of the method, so the catch block sends the error event, the apology
\* and done, and saves the apology.
SearchSaveThrows(t) ==
  /\ turn[t].pc = "tool"
  /\ turn[t].plan = "search_documents"
  /\ turn[t].args # 0
  /\ MayThrow
  /\ faults' = faults + 1
  /\ \E matches \in VectorizeQuery(vectorIndex, agent.sessionId, DefaultTopK) :
       turn' = [turn EXCEPT ![t] =
                  Sent([@ EXCEPT !.pc = "done",
                                 !.result = searchDocuments(matches, document_chunks,
                                                documents, agent.sessionId, FALSE)],
                       <<ToolEvent("done"), ToolEvent("error"),
                         Delta(Apology("search_documents")), Done>>)]
  /\ messages' = Append(messages, Msg("assistant", Apology("search_documents"), t))
  /\ state_messages' =
       Append(state_messages, Msg("assistant", Apology("search_documents"), t))
  /\ UNCHANGED <<pipelineVars, httpVars, messagesTable>>

\* #streamAssistant called by #executeSearchDocuments: the stream is done,
\* finally sends done, and the INSERT of #saveAssistant throws, outside
\* #streamAssistant's try block and inside #executeSearchDocuments' one, whose
\* catch block sends the error event, the apology and done, and saves the
\* apology
AnswerSaveThrows(t) ==
  /\ turn[t].pc = "streaming"
  /\ turn[t].plan = "search_documents"
  /\ MayThrow
  /\ faults' = faults + 1
  /\ turn' = [turn EXCEPT ![t] =
                Sent([@ EXCEPT !.pc = "done", !.stream = "ended"],
                     <<Done, ToolEvent("error"),
                       Delta(Apology("search_documents")), Done>>)]
  /\ messages' = Append(messages, Msg("assistant", Apology("search_documents"), t))
  /\ state_messages' =
       Append(state_messages, Msg("assistant", Apology("search_documents"), t))
  /\ UNCHANGED <<pipelineVars, httpVars, messagesTable>>

\* One chat message to a connected agent whose writes to its own storage can
\* throw
NextSave ==
  \/ \E d \in OneDoc : Upload(d, {chunkSize \div 2})
  \/ \E header \in Sessions : OnConnect(header)
  \/ Chat(1, SingleCallOutputs)
  \/ SearchSaveThrows(1)
  \/ AnswerSaveThrows(1)

SpecSave == InitChat /\ [][NextSave]_vars

\* C40: once a search invocation of a chat turn has ended, its started event
\* has been followed by exactly one terminal tool event, done or error
C40_OneTerminalToolEvent ==
  \A t \in Turns :
    (turn[t].plan = "search_documents" /\ turn[t].pc = "done")
      => /\ Len(FramesOf(t, "tool")) = 2
         /\ FramesOf(t, "tool")[1] = ToolEvent("started")
         /\ FramesOf(t, "tool")[2] \in {ToolEvent("done"), ToolEvent("error")}

====
